---- MODULE Spec2Model ----
(***************************************************************************)
(* Model of the sequence name-to-id resolver of bento-mcp                  *)
(* (src/sequence-resolution.ts: normalizeName, resolveSequenceId) together *)
(* with the page-recording fetcher its tests inject                        *)
(* (tests/create-sequence-email.test.ts: buildGetSequencesFromPages).      *)
(*                                                                         *)
(* A JavaScript string is a tuple of one-character strings.  The absent    *)
(* value (undefined) and null are the one-element tuples Undefined and     *)
(* Null, whose element is no character, so that they compare with strings. *)
(* resolveSequenceId is an async function: it runs atomically from its     *)
(* call to its first await and from one await to the next, so there is one *)
(* action for the call and one for each way the awaited getSequences       *)
(* promise settles.                                                        *)
(***************************************************************************)
EXTENDS Integers, Sequences, FiniteSets, TLC

VARIABLES sequenceId, sequenceName, pc, page, sequences, result,
          requestedPages, inFlight, earlierPagesClean, rejectedPage

\* several calls of resolveSequenceId over one listing
VARIABLES listing, calls

\* one call of a tool of the server
VARIABLES env, toolCall, toolPc, apiLog, response

\* one run of the setup command
VARIABLES setupEnv, options, setupPc, creds, queue, step, fs, spawned,
          configured

\* the state of the one call of resolveSequenceId followed step by step
callVars == <<sequenceId, sequenceName, pc, page, sequences, result,
              requestedPages, inFlight, earlierPagesClean, rejectedPage>>

\* the state of the calls that run side by side
concurrentVars == <<listing, calls>>

\* the state of the call of a tool
toolVars == <<env, toolCall, toolPc, apiLog, response>>

\* the state of the run of the setup command
setupVars == <<setupEnv, options, setupPc, creds, queue, step, fs, spawned,
               configured>>

\* what a step of the one call leaves alone
outsideCall == <<concurrentVars, toolVars, setupVars>>

\* what a step of the calls that run side by side leaves alone
outsideConcurrent == <<callVars, toolVars, setupVars>>

\* what a step of a tool leaves alone
outsideTools == <<callVars, concurrentVars, setupVars>>

\* what a step of the setup command leaves alone
outsideSetup == <<callVars, concurrentVars, toolVars>>

vars == <<callVars, concurrentVars, toolVars, setupVars>>

----------------------------------------------------------------------------
(* Values *)

Undefined == <<"undefined">>

Null == <<"null">>

\* result before the promise of resolveSequenceId has settled
Pending == <<"pending">>

WhiteSpace == {" ", "\t"}

\* the longest page the fetcher of the model returns
MaxPageLen == 2

MAX_SEQUENCE_PAGES == 100

----------------------------------------------------------------------------
(* String operations of the JavaScript runtime the code calls *)

RECURSIVE trimStart(_)
trimStart(s) ==
    IF s # <<>> /\ Head(s) \in WhiteSpace THEN trimStart(Tail(s)) ELSE s

RECURSIVE trimEnd(_)
trimEnd(s) ==
    IF s # <<>> /\ s[Len(s)] \in WhiteSpace
    THEN trimEnd(SubSeq(s, 1, Len(s) - 1))
    ELSE s

\* a mutant of trim: only the leading white space is removed
trimLeadingOnly(s) == trimStart(s)

\* a mutant of trim: nothing is removed
trimNone(s) == s

\* String.prototype.trim
trim(s) == trimEnd(trimStart(s))

lowerChar(c) ==
    CASE c = "A" -> "a"
      [] c = "B" -> "b"
      [] c = "C" -> "c"
      [] c = "X" -> "x"
      [] c = "D" -> "d"
      [] c = "E" -> "e"
      [] c = "O" -> "o"
      [] c = "P" -> "p"
      [] c = "R" -> "r"
      [] OTHER -> c

\* String.prototype.toLowerCase
toLowerCase(s) == [i \in 1..Len(s) |-> lowerChar(s[i])]

\* JavaScript truthiness of a value of type string | undefined | null
truthy(v) == v # Undefined /\ v # Null /\ v # <<>>

\* value?.trim()
optTrim(value) == IF value = Undefined THEN Undefined ELSE trim(value)

----------------------------------------------------------------------------
(* normalizeName *)

normalizeName(value) ==
    LET trimmed == optTrim(value)
    IN  IF ~truthy(trimmed) THEN Null ELSE toLowerCase(trimmed)

----------------------------------------------------------------------------
(* BentoSequence values and the values a getSequences promise resolves to *)

Sequence(id, hasAttributes, name) ==
    [id |-> id, hasAttributes |-> hasAttributes, name |-> name]

\* the listing entries the fetcher of the model can return
Sequences ==
    { Sequence(<<"s","1">>, TRUE, <<"a","b">>),
      Sequence(<<"s","2">>, TRUE, <<"\t","A","b"," ">>),
      Sequence(<<"s","3">>, TRUE, <<"a","b","c">>),
      Sequence(<<"s","4">>, TRUE, <<"a">>),
      Sequence(<<"s","5">>, TRUE, <<>>),
      Sequence(<<"s","6">>, TRUE, <<" ">>),
      Sequence(<<"s","7">>, TRUE, Undefined),
      Sequence(<<"s","8">>, FALSE, Undefined) }

RECURSIVE SeqsUpTo(_, _)
SeqsUpTo(S, n) ==
    IF n = 0 THEN { <<>> }
    ELSE LET shorter == SeqsUpTo(S, n - 1)
         IN  shorter \cup { Append(s, x) : s \in shorter, x \in S }

\* BentoSequence[] | null | undefined
Array(items) == [kind |-> "array", items |-> items]

NullPage == [kind |-> "null", items |-> <<>>]

UndefinedPage == [kind |-> "undefined", items |-> <<>>]

\* no getSequences promise has resolved yet
NoPage == [kind |-> "none", items |-> <<>>]

Pages ==
    { Array(items) : items \in SeqsUpTo(Sequences, MaxPageLen) }
        \cup { NullPage, UndefinedPage }

\* the sequenceId arguments of the model
SequenceIds ==
    { Undefined, <<>>, <<" ">>, <<" ","x","\t">>, <<"X">> }

\* the sequenceName arguments of the model
SequenceNames ==
    { Undefined, <<>>, <<" ","\t">>,
      <<"a","b">>, <<" ","A","B"," ">>, <<"a">> }

----------------------------------------------------------------------------
(* The expressions of resolveSequenceId *)

\* sequence.attributes?.name
attributesName(sequence) ==
    IF sequence.hasAttributes THEN sequence.name ELSE Undefined

\* a mutant of isExhausted: only an absent page ends the listing
isExhaustedAbsentOnly(seqs) == seqs.kind # "array"

\* a mutant of isExhausted: only an empty array ends the listing
isExhaustedEmptyArrayOnly(seqs) == seqs.kind = "array" /\ Len(seqs.items) = 0

\* a mutant of isExhausted: a page of one entry is taken for the last page
isExhaustedShortPage(seqs) == seqs.kind # "array" \/ Len(seqs.items) <= 1

\* !sequences || sequences.length === 0
isExhausted(seqs) == seqs.kind # "array" \/ Len(seqs.items) = 0

\* a mutant of find: the last matching entry is taken
findLast(items, target) ==
    LET hits == { i \in 1..Len(items) :
                    normalizeName(attributesName(items[i])) = target }
    IN  IF hits = {} THEN 0 ELSE CHOOSE i \in hits : \A j \in hits : j <= i

\* a mutant of find: an entry whose name starts with the target is taken
findPrefix(items, target) ==
    LET starts(n) == n # Null /\ Len(n) >= Len(target)
                       /\ SubSeq(n, 1, Len(target)) = target
        hits == { i \in 1..Len(items) :
                    starts(normalizeName(attributesName(items[i]))) }
    IN  IF hits = {} THEN 0 ELSE CHOOSE i \in hits : \A j \in hits : i <= j

\* a mutant of find: an entry without a name matches any target
findOrNameless(items, target) ==
    LET hits == { i \in 1..Len(items) :
                    normalizeName(attributesName(items[i])) \in {target, Null} }
    IN  IF hits = {} THEN 0 ELSE CHOOSE i \in hits : \A j \in hits : i <= j

\* sequences.find(...): the index of the first entry whose normalized name is
\* the target, 0 for undefined
find(items, target) ==
    LET hits == { i \in 1..Len(items) :
                    normalizeName(attributesName(items[i])) = target }
    IN  IF hits = {} THEN 0 ELSE CHOOSE i \in hits : \A j \in hits : i <= j

\* a mutant of loopCondition: the ceiling is exclusive
loopConditionExclusive(p) == p < MAX_SEQUENCE_PAGES

\* a mutant of loopCondition: no ceiling below the pages of the model
loopConditionLate(p) == p <= MAX_SEQUENCE_PAGES + 1

\* page <= MAX_SEQUENCE_PAGES
loopCondition(p) == p <= MAX_SEQUENCE_PAGES

\* a mutant of nextPage: the cursor is not advanced
nextPageStuck(p) == p

\* a mutant of nextPage: a page is skipped
nextPageSkips(p) == p + 2

\* page += 1
nextPage(p) == p + 1

----------------------------------------------------------------------------
(* The independent reading of "the same name": equal once surrounding      *)
(* white space is dropped and letter case ignored.  Used by the history    *)
(* variable earlierPagesClean and by the properties, never by the actions. *)

Core(s) ==
    LET solid == { i \in 1..Len(s) : s[i] \notin WhiteSpace }
        first == CHOOSE i \in solid : \A j \in solid : i <= j
        last  == CHOOSE i \in solid : \A j \in solid : j <= i
    IN  IF solid = {} THEN <<>> ELSE SubSeq(s, first, last)

SameLetter(c, d) ==
    c = d \/ {c, d} \in { {"a","A"}, {"b","B"}, {"c","C"}, {"x","X"},
                           {"d","D"}, {"e","E"}, {"o","O"}, {"p","P"},
                           {"r","R"} }

IsString(v) == v # Undefined /\ v # Null

Blank(v) == ~IsString(v) \/ Core(v) = <<>>

SameName(a, b) ==
    /\ ~Blank(a)
    /\ ~Blank(b)
    /\ Len(Core(a)) = Len(Core(b))
    /\ \A i \in 1..Len(Core(a)) : SameLetter(Core(a)[i], Core(b)[i])

Matches(sequence, name) ==
    sequence.hasAttributes /\ SameName(sequence.name, name)

Matching(seqs, name) ==
    { i \in 1..Len(seqs.items) : Matches(seqs.items[i], name) }

\* a page that is an array with at least one entry, none of them a match
CleanPage(seqs, name) ==
    seqs.kind = "array" /\ Len(seqs.items) > 0 /\ Matching(seqs, name) = {}

----------------------------------------------------------------------------
(* State *)

TypeOK ==
    /\ sequenceId \in SequenceIds
    /\ sequenceName \in SequenceNames
    /\ pc \in {"idle", "start", "awaiting", "done", "failed"}
    /\ page \in 0..(MAX_SEQUENCE_PAGES + 1)
    /\ sequences \in Pages \cup {NoPage}
    /\ requestedPages \in Seq(Nat)
    /\ inFlight \in Nat
    /\ earlierPagesClean \in BOOLEAN
    /\ rejectedPage \in 0..(MAX_SEQUENCE_PAGES + 1)

\* no calls run side by side
ConcurrentIdle ==
    /\ listing = <<>>
    /\ calls = <<>>

\* no tool is called
ToolsIdle ==
    /\ env = <<>>
    /\ toolCall = <<>>
    /\ toolPc = "idle"
    /\ apiLog = <<>>
    /\ response = <<>>

\* the setup command is not run
SetupIdle ==
    /\ setupEnv = <<>>
    /\ options = <<>>
    /\ setupPc = "idle"
    /\ creds = <<>>
    /\ queue = <<>>
    /\ step = "none"
    /\ fs = <<>>
    /\ spawned = <<>>
    /\ configured = <<>>

Init ==
    /\ sequenceId \in SequenceIds
    /\ sequenceName \in SequenceNames
    /\ pc = "start"
    /\ page = 0
    /\ sequences = NoPage
    /\ result = Pending
    /\ requestedPages = <<>>
    /\ inFlight = 0
    /\ earlierPagesClean = TRUE
    /\ rejectedPage = 0
    /\ ConcurrentIdle
    /\ ToolsIdle
    /\ SetupIdle

\* the one call followed step by step is not made
CallIdle ==
    /\ sequenceId = Undefined
    /\ sequenceName = Undefined
    /\ pc = "idle"
    /\ page = 0
    /\ sequences = NoPage
    /\ result = Pending
    /\ requestedPages = <<>>
    /\ inFlight = 0
    /\ earlierPagesClean = TRUE
    /\ rejectedPage = 0

\* a mutant of return: the value is stored but the loop is not left, and the
\* next page is requested
returnKeepsLooping(value, outstanding) ==
    /\ pc' = "awaiting"
    /\ result' = value
    /\ inFlight' = outstanding + 1
    /\ requestedPages' = Append(requestedPages, Len(requestedPages) + 1)

\* return value: the promise of resolveSequenceId is fulfilled
return(value, outstanding) ==
    /\ pc' = "done"
    /\ result' = value
    /\ inFlight' = outstanding
    /\ UNCHANGED requestedPages

\* a mutant of whileLoop: the page after p is requested along with p
whileLoopPrefetch(p, outstanding) ==
    /\ page' = p
    /\ IF loopCondition(p)
       THEN /\ requestedPages' = requestedPages \o <<p, p + 1>>
            /\ inFlight' = outstanding + 2
            /\ pc' = "awaiting"
            /\ result' = Pending
       ELSE return(Null, outstanding)

\* the head of the while loop with the cursor at p: either getSequences({ page })
\* is called and awaited, or the loop is left and null returned
whileLoop(p, outstanding) ==
    /\ page' = p
    /\ IF loopCondition(p)
       THEN /\ requestedPages' = Append(requestedPages, p)
            /\ inFlight' = outstanding + 1
            /\ pc' = "awaiting"
            /\ result' = Pending
       ELSE return(Null, outstanding)

\* the call of resolveSequenceId, up to its first await or its return
resolveSequenceId ==
    /\ pc = "start"
    /\ LET normalizedSequenceId == optTrim(sequenceId)
           normalizedSequenceName == normalizeName(sequenceName)
       IN  IF truthy(normalizedSequenceId)
           THEN return(normalizedSequenceId, inFlight) /\ UNCHANGED page
           ELSE IF ~truthy(normalizedSequenceName)
           THEN return(Null, inFlight) /\ UNCHANGED page
           ELSE whileLoop(1, inFlight)
    /\ UNCHANGED <<sequenceId, sequenceName, sequences, earlierPagesClean,
                   rejectedPage>>
    /\ UNCHANGED outsideCall

\* the awaited getSequences promise resolves to seqs: the rest of the loop body,
\* then the loop head again.  sequences is a const of the loop body: it holds
\* the page the call returned on, and nothing while the next page is awaited.
\* earlierPagesClean records whether every page the loop went past was a
\* non-empty array without a match.
getSequencesResolves(seqs) ==
    /\ pc = "awaiting"
    /\ LET normalizedSequenceName == normalizeName(sequenceName)
           match == find(seqs.items, normalizedSequenceName)
       IN  IF isExhausted(seqs)
           THEN /\ return(Null, inFlight - 1)
                /\ sequences' = seqs
                /\ UNCHANGED <<page, earlierPagesClean>>
           ELSE IF match # 0
           THEN /\ return(seqs.items[match].id, inFlight - 1)
                /\ sequences' = seqs
                /\ UNCHANGED <<page, earlierPagesClean>>
           ELSE /\ whileLoop(nextPage(page), inFlight - 1)
                /\ sequences' = IF pc' = "done" THEN seqs ELSE NoPage
                /\ earlierPagesClean' =
                      (earlierPagesClean
                         /\ (pc' = "done" \/ CleanPage(seqs, sequenceName)))
    /\ UNCHANGED <<sequenceId, sequenceName, rejectedPage>>
    /\ UNCHANGED outsideCall

\* a mutant of getSequencesRejects: the failure is caught and the page asked again
getSequencesRejectsRetried ==
    /\ pc = "awaiting"
    /\ Len(requestedPages) < MAX_SEQUENCE_PAGES + 2
    /\ requestedPages' = Append(requestedPages, page)
    /\ rejectedPage' = page
    /\ UNCHANGED <<sequenceId, sequenceName, pc, page, sequences, result,
                   inFlight, earlierPagesClean>>
    /\ UNCHANGED outsideCall

\* the awaited getSequences promise rejects: nothing catches it, the promise of
\* resolveSequenceId rejects.  rejectedPage records the page whose fetch failed.
getSequencesRejects ==
    /\ pc = "awaiting"
    /\ pc' = "failed"
    /\ inFlight' = inFlight - 1
    /\ rejectedPage' = page
    /\ UNCHANGED <<sequenceId, sequenceName, page, sequences, result,
                   requestedPages, earlierPagesClean>>
    /\ UNCHANGED outsideCall

Next ==
    \/ resolveSequenceId
    \/ \E seqs \in Pages : getSequencesResolves(seqs)
    \/ getSequencesRejects

Spec == Init /\ [][Next]_vars

\* the awaited getSequences promise settles, one way or the other
getSequencesSettles ==
    \/ \E seqs \in Pages : getSequencesResolves(seqs)
    \/ getSequencesRejects

\* The event loop runs the call, and every page fetch the call awaits
\* completes or fails.
FairSpec ==
    /\ Spec
    /\ WF_vars(resolveSequenceId)
    /\ WF_vars(getSequencesSettles)

----------------------------------------------------------------------------
(* Several calls of resolveSequenceId side by side, each awaiting its own   *)
(* page fetches, over one listing that answers the same page number with    *)
(* the same page (tests: buildGetSequencesFromPages over a fixture).        *)

\* the number of calls that run side by side
MaxCalls == 2

CallIds == 1..MaxCalls

\* pages[page] ?? []: page `at` is `special`, the other pages up to `len` are
\* `filler`, the pages after `len` are empty arrays
Listing(filler, len, special, at) ==
    [filler |-> filler, len |-> len, special |-> special, at |-> at]

PageOf(L, p) ==
    IF p = L.at THEN L.special
    ELSE IF p <= L.len THEN L.filler
    ELSE Array(<<>>)

\* the listings of the model: the fixtures of the tests, a listing with an
\* absent page, and three that do not run out before the ceiling, one with a
\* match on page 100 and one with its only match on page 101
Listings ==
    LET ab   == Sequence(<<"s","1">>, TRUE, <<"a","b">>)
        aB   == Sequence(<<"s","2">>, TRUE, <<"\t","A","b"," ">>)
        abc  == Sequence(<<"s","3">>, TRUE, <<"a","b","c">>)
        a    == Sequence(<<"s","4">>, TRUE, <<"a">>)
        none == Sequence(<<"s","8">>, FALSE, Undefined)
    IN  { Listing(Array(<<abc>>), 3, Array(<<>>), 0),
          Listing(Array(<<abc>>), 1, Array(<<aB>>), 2),
          Listing(Array(<<none, abc>>), 11, Array(<<abc, ab, a>>), 5),
          Listing(Array(<<a>>), 4, NullPage, 2),
          Listing(Array(<<abc>>), MAX_SEQUENCE_PAGES + 1, Array(<<>>), 0),
          Listing(Array(<<abc>>), MAX_SEQUENCE_PAGES + 1,
                  Array(<<aB, ab>>), MAX_SEQUENCE_PAGES),
          Listing(Array(<<abc>>), MAX_SEQUENCE_PAGES + 1,
                  Array(<<ab, aB>>), MAX_SEQUENCE_PAGES + 1) }

\* the arguments of the calls that run side by side
\* ids that are given and blank: the empty string and white space only
BlankIds == { <<>>, <<" ","\t">> }

ConcurrentIds == { Undefined, <<" ","x","\t">> } \cup BlankIds

ConcurrentNames == { Undefined, <<"a","b">>, <<" ","A","B"," ">>, <<"a">> }

\* the pairs of arguments of a call: an absent or a usable id with every name,
\* a given and blank id with no name and with a name that the listings hold
ConcurrentArgs ==
    ((ConcurrentIds \ BlankIds) \X ConcurrentNames)
        \cup (BlankIds \X { Undefined, <<"a","b">> })

\* a call that has not run yet
Call(id, name) ==
    [sequenceId |-> id, sequenceName |-> name, pc |-> "start", page |-> 0,
     result |-> Pending, requestedPages |-> <<>>]

\* return value
callReturn(call, value) == [call EXCEPT !.pc = "done", !.result = value]

\* the head of the while loop of one call, its cursor at p
callWhileLoop(call, p) ==
    IF loopCondition(p)
    THEN [call EXCEPT !.page = p, !.pc = "awaiting",
                      !.requestedPages = Append(@, p)]
    ELSE callReturn([call EXCEPT !.page = p], Null)

\* a mutant of callStart: an id that is given wins even when it is blank
callStartAnyGivenId(call) ==
    LET normalizedSequenceId == optTrim(call.sequenceId)
        normalizedSequenceName == normalizeName(call.sequenceName)
    IN  IF call.sequenceId # Undefined
        THEN callReturn(call, normalizedSequenceId)
        ELSE IF ~truthy(normalizedSequenceName)
        THEN callReturn(call, Null)
        ELSE callWhileLoop(call, 1)

\* one call, from its start to its first await or its return
callStart(call) ==
    LET normalizedSequenceId == optTrim(call.sequenceId)
        normalizedSequenceName == normalizeName(call.sequenceName)
    IN  IF truthy(normalizedSequenceId)
        THEN callReturn(call, normalizedSequenceId)
        ELSE IF ~truthy(normalizedSequenceName)
        THEN callReturn(call, Null)
        ELSE callWhileLoop(call, 1)

\* one call, from the page seqs it awaited to its next await or its return
callResume(call, seqs) ==
    LET normalizedSequenceName == normalizeName(call.sequenceName)
        match == find(seqs.items, normalizedSequenceName)
    IN  IF isExhausted(seqs)
        THEN callReturn(call, Null)
        ELSE IF match # 0
        THEN callReturn(call, seqs.items[match].id)
        ELSE callWhileLoop(call, nextPage(call.page))

ConcurrentTypeOK ==
    /\ listing \in Listings
    /\ DOMAIN calls = CallIds
    /\ \A c \in CallIds :
          /\ calls[c].pc \in {"start", "awaiting", "done"}
          /\ calls[c].page \in 0..(MAX_SEQUENCE_PAGES + 1)

ConcurrentInit ==
    /\ listing \in Listings
    /\ calls \in [CallIds -> { Call(a[1], a[2]) : a \in ConcurrentArgs }]
    \* the calls are interchangeable: a given and blank id goes to the first
    /\ \A c \in CallIds \ {1} : calls[c].sequenceId \notin BlankIds
    /\ CallIdle
    /\ ToolsIdle
    /\ SetupIdle

\* a mutant of resolveSequenceIdOf: a call reuses the outcome of a settled call
\* with the same arguments instead of searching
resolveSequenceIdOfCached(c) ==
    /\ calls /= <<>>
    /\ calls[c].pc = "start"
    /\ LET same == { d \in CallIds :
                       /\ calls[d].pc = "done"
                       /\ calls[d].sequenceId = calls[c].sequenceId
                       /\ calls[d].sequenceName = calls[c].sequenceName }
       IN  calls' =
             [calls EXCEPT
                ![c] = IF same = {} THEN callStart(@)
                       ELSE callReturn(@, calls[CHOOSE d \in same : TRUE].result)]
    /\ UNCHANGED listing
    /\ UNCHANGED outsideConcurrent

\* call c of resolveSequenceId is made
resolveSequenceIdOf(c) ==
    /\ calls /= <<>>
    /\ calls[c].pc = "start"
    /\ calls' = [calls EXCEPT ![c] = callStart(@)]
    /\ UNCHANGED listing
    /\ UNCHANGED outsideConcurrent

\* a mutant of getSequencesResolvesOf: the calls share one page cursor, which
\* holds the page the call that ran last left in it
getSequencesResolvesOfSharedCursor(c) ==
    /\ calls /= <<>>
    /\ calls[c].pc = "awaiting"
    /\ LET cursor == CHOOSE q \in { calls[d].page : d \in CallIds } :
                        \A d \in CallIds : calls[d].page <= q
       IN  calls' =
             [calls EXCEPT
                ![c] = callResume([@ EXCEPT !.page = cursor],
                                  PageOf(listing, @.page))]
    /\ UNCHANGED listing
    /\ UNCHANGED outsideConcurrent

\* the page fetch call c awaits resolves to the page of the listing
getSequencesResolvesOf(c) ==
    /\ calls /= <<>>
    /\ calls[c].pc = "awaiting"
    /\ calls' = [calls EXCEPT ![c] = callResume(@, PageOf(listing, @.page))]
    /\ UNCHANGED listing
    /\ UNCHANGED outsideConcurrent

ConcurrentNext ==
    \/ \E c \in CallIds : resolveSequenceIdOf(c)
    \/ \E c \in CallIds : getSequencesResolvesOf(c)

ConcurrentSpec == ConcurrentInit /\ [][ConcurrentNext]_vars

----------------------------------------------------------------------------
(* The tool handlers of the server (src/index.ts).  A handler runs from the *)
(* dispatcher's call to its first awaited Bento API call or to its return,  *)
(* and from the settling of an API call to the next one or to its return.   *)

\* JavaScript values of the details argument, tagged with their typeof
JsUndefined == [t |-> "undefined"]

JsNull == [t |-> "null"]

JsString(s) == [t |-> "string", s |-> s]

JsNumber(n) == [t |-> "number", n |-> n]

JsObject(fields) == [t |-> "object", o |-> fields]

\* JavaScript truthiness of a tagged value
jsTruthy(x) ==
    CASE x.t = "undefined" -> FALSE
      [] x.t = "null" -> FALSE
      [] x.t = "string" -> x.s # <<>>
      [] x.t = "number" -> x.n # 0
      [] OTHER -> TRUE

\* object.name of a tagged value that is not null or undefined: undefined
\* unless it is an object that has the property
jsGet(x, name) ==
    IF x.t = "object" /\ name \in DOMAIN x.o THEN x.o[name] ELSE JsUndefined

\* process.env: a variable is unset, empty or set
EnvValues == { Undefined, <<>>, <<"k">> }

Envs ==
    [BENTO_PUBLISHABLE_KEY : EnvValues, BENTO_SECRET_KEY : EnvValues,
     BENTO_SITE_UUID : EnvValues]

\* a mutant of getBentoClient: only an unset variable is refused
getBentoClientUnsetOnly(e) ==
    /\ e.BENTO_PUBLISHABLE_KEY # Undefined
    /\ e.BENTO_SECRET_KEY # Undefined
    /\ e.BENTO_SITE_UUID # Undefined

\* getBentoClient: TRUE when the client is built, FALSE when it throws
\* "Missing required environment variables: ..."
getBentoClient(e) ==
    ~(\/ ~truthy(e.BENTO_PUBLISHABLE_KEY)
      \/ ~truthy(e.BENTO_SECRET_KEY)
      \/ ~truthy(e.BENTO_SITE_UUID))

\* the most subscribers of one batch
MAX_BATCH == 1000

\* how far past MAX_BATCH the batches of the model go
MaxOver == 2

\* errors, by what errorResponse looks at: whether the value thrown is an
\* Error, and which of the texts it looks for the message holds
ErrorValue(isErrorObject, marks) ==
    [isErrorObject |-> isErrorObject, marks |-> marks]

MissingEnvError == ErrorValue(TRUE, {"Missing required environment variables"})

\* what a Bento API call can reject with
ApiErrors ==
    { ErrorValue(TRUE, {}), ErrorValue(TRUE, {"401"}),
      ErrorValue(TRUE, {"404", "500"}), ErrorValue(TRUE, {"429"}),
      ErrorValue(FALSE, {"401"}) }

\* a response without the isError flag
NoFlag == "absent"

Response(kind, message, isError) ==
    [kind |-> kind, message |-> message, isError |-> isError]

\* no response yet
NoResponse == Response("none", "none", NoFlag)

\* successResponse: content only
successResponse(data) == Response("success", data, NoFlag)

\* errorResponse: the message is rewritten by the first text found, isError: true
errorResponse(error) ==
    LET has(mark) == mark \in error.marks
        message ==
            IF ~error.isErrorObject THEN "other"
            ELSE IF has("Missing required environment variables")
            THEN "Configuration error"
            ELSE IF has("401") THEN "Authentication failed"
            ELSE IF has("404") THEN "Resource not found"
            ELSE IF has("429") THEN "Rate limit exceeded"
            ELSE IF has("500") THEN "Bento API error"
            ELSE "other"
    IN  Response("error", message, "true")

\* validationError: "Validation error: ...", isError: true
validationError(message) == Response("validation", message, "true")

\* PURCHASE_EVENT_TYPES
PURCHASE_EVENT_TYPES ==
    { <<"$","p","u","r","c","h","a","s","e">>,
      <<"p","u","r","c","h","a","s","e">>,
      <<"o","r","d","e","r">>,
      <<"o","r","d","e","r","_","c","o","m","p","l","e","t","e">>,
      <<"e","v","e","n","t","_","s","a","l","e">> }

\* the type arguments of track_event in the model: the purchase types, two of
\* them in other letter case, a type that contains one, and another type
EventTypes ==
    PURCHASE_EVENT_TYPES
        \cup { <<"O","r","d","e","r">>, <<"$","P","u","r","c","h","a","s","e">>,
               <<"o","r","d","e","r","s">>, <<"$","p","a","g","e","V","i","e","w">> }

\* a mutant of isPurchaseEvent: the letter case counts
isPurchaseEventCased(type) == type \in PURCHASE_EVENT_TYPES

\* PURCHASE_EVENT_TYPES.some(t => type.toLowerCase() === t.toLowerCase())
isPurchaseEvent(type) ==
    \E purchaseType \in PURCHASE_EVENT_TYPES :
        toLowerCase(type) = toLowerCase(purchaseType)

\* the details arguments of the model
Currencies ==
    { JsUndefined, JsString(<<"U","S","D">>), JsString(<<"U","S">>),
      JsString(<<"U","S","D","X">>), JsNumber(840) }

Amounts ==
    { JsUndefined, JsNumber(4000), JsNumber(0), JsNumber(-1),
      JsString(<<"4","0">>) }

ValueObject(currency, amount) ==
    JsObject([currency |-> currency, amount |-> amount])

Values ==
    { JsUndefined, JsNull, JsNumber(0), JsString(<<"U","S","D">>) }
        \cup { ValueObject(c, a) : c \in Currencies, a \in Amounts }

UniqueObject(key) == JsObject([key |-> key])

Uniques ==
    { JsUndefined, UniqueObject(JsUndefined), UniqueObject(JsString(<<>>)),
      UniqueObject(JsNumber(0)), UniqueObject(JsString(<<"o","1">>)) }

Carts == { JsUndefined, JsObject([items |-> JsNumber(2)]) }

DetailsObject(unique, value, cart) ==
    JsObject([unique |-> unique, value |-> value, cart |-> cart])

Details ==
    { JsUndefined }
        \cup { DetailsObject(u, v, c) : u \in Uniques, v \in Values, c \in Carts }

\* what generateUniqueKey can return: it depends on the clock and on
\* Math.random
GeneratedKeys == { <<"m","c","p","_","1">>, <<"m","c","p","_","2">> }

Validation(valid, error, details) ==
    [valid |-> valid, error |-> error, details |-> details]

\* a mutant of validatePurchaseDetails: the details it returns are built anew
\* from unique and value, and nothing else of the caller's details is kept
validatePurchaseDetailsRebuilt(details, generatedKey) ==
    LET value    == jsGet(details, "value")
        currency == jsGet(value, "currency")
        amount   == jsGet(value, "amount")
        unique   == jsGet(details, "unique")
    IN  IF ~jsTruthy(details)
        THEN Validation(FALSE, "details", JsUndefined)
        ELSE IF ~jsTruthy(value)
        THEN Validation(FALSE, "details.value", JsUndefined)
        ELSE IF currency.t # "string" \/ Len(currency.s) # 3
        THEN Validation(FALSE, "details.value.currency", JsUndefined)
        ELSE IF amount.t # "number" \/ amount.n < 0
        THEN Validation(FALSE, "details.value.amount", JsUndefined)
        ELSE IF ~jsTruthy(unique) \/ ~jsTruthy(jsGet(unique, "key"))
        THEN Validation(TRUE, "",
                 DetailsObject(UniqueObject(JsString(generatedKey)), value,
                               JsUndefined))
        ELSE Validation(TRUE, "", DetailsObject(unique, value, JsUndefined))

\* validatePurchaseDetails
validatePurchaseDetails(details, generatedKey) ==
    LET value    == jsGet(details, "value")
        currency == jsGet(value, "currency")
        amount   == jsGet(value, "amount")
        unique   == jsGet(details, "unique")
    IN  IF ~jsTruthy(details)
        THEN Validation(FALSE, "details", JsUndefined)
        ELSE IF ~jsTruthy(value)
        THEN Validation(FALSE, "details.value", JsUndefined)
        ELSE IF currency.t # "string" \/ Len(currency.s) # 3
        THEN Validation(FALSE, "details.value.currency", JsUndefined)
        ELSE IF amount.t # "number" \/ amount.n < 0
        THEN Validation(FALSE, "details.value.amount", JsUndefined)
        ELSE IF ~jsTruthy(unique) \/ ~jsTruthy(jsGet(unique, "key"))
        THEN Validation(TRUE, "",
                 JsObject([details.o EXCEPT
                              !.unique = UniqueObject(JsString(generatedKey))]))
        ELSE Validation(TRUE, "", details)

\* the tools the server registers
Tools ==
    { "get_subscriber", "batch_import_subscribers", "list_tags", "create_tag",
      "list_fields", "create_field", "track_event", "get_site_stats",
      "list_broadcasts", "create_broadcast", "list_automations",
      "get_email_template", "update_email_template" }

\* one call of a tool by the dispatcher, its arguments already accepted by the
\* schema of the tool; the arguments a tool does not have keep their default
ToolCall(tool, email, uuid, count, type, details, subject, html, filter) ==
    [tool |-> tool, email |-> email, uuid |-> uuid, count |-> count,
     type |-> type, details |-> details, subject |-> subject, html |-> html,
     filter |-> filter]

PlainCall(tool) ==
    ToolCall(tool, Undefined, Undefined, 0, <<>>, JsUndefined, Undefined,
             Undefined, "all")

OptionalStrings == { Undefined, <<>>, <<"s">> }

ToolCalls ==
    { PlainCall(tool) :
        tool \in { "list_tags", "create_tag", "list_fields", "create_field",
                   "get_site_stats", "list_broadcasts", "create_broadcast",
                   "get_email_template" } }
        \cup { [PlainCall("get_subscriber") EXCEPT !.email = e, !.uuid = u] :
                 e \in { Undefined, <<"e">> }, u \in OptionalStrings }
        \cup { [PlainCall("batch_import_subscribers") EXCEPT !.count = n] :
                 n \in 0..(MAX_BATCH + MaxOver) }
        \cup { [PlainCall("track_event") EXCEPT !.type = ty, !.details = d] :
                 ty \in EventTypes, d \in Details }
        \cup { [PlainCall("list_automations") EXCEPT !.filter = f] :
                 f \in { "sequences", "workflows", "all" } }
        \cup { [PlainCall("update_email_template") EXCEPT
                   !.subject = s, !.html = h] :
                 s \in OptionalStrings, h \in OptionalStrings }

\* a call of the Bento API: the operation, what the model keeps of its
\* argument, and how the promise settled
ApiCall(op, count, details) ==
    [op |-> op, count |-> count, details |-> details, outcome |-> "pending"]

\* what a Bento API call can resolve with: nothing, or data
ApiData == { "null", "data" }

ToolTypeOK ==
    /\ toolPc \in {"idle", "called", "awaiting", "returned", "threw"}
    /\ toolPc # "idle" =>
          /\ env \in Envs
          /\ toolCall \in ToolCalls
          /\ Len(apiLog) \in 0..2

\* the dispatcher calls the handler of one tool; the server reads process.env
\* when the handler asks for the client
ToolInit ==
    /\ env \in Envs
    /\ toolCall \in ToolCalls
    /\ toolPc = "called"
    /\ apiLog = <<>>
    /\ response = NoResponse
    /\ CallIdle
    /\ ConcurrentIdle
    /\ SetupIdle

\* the handler returns a response to the dispatcher
toolReturn(r) ==
    /\ toolPc' = "returned"
    /\ response' = r
    /\ UNCHANGED <<env, toolCall>>

\* a mutant of catchError: the exception goes on to the dispatcher
catchErrorRethrows(error) ==
    /\ toolPc' = "threw"
    /\ UNCHANGED <<env, toolCall, response>>

\* catch (error) { return errorResponse(error, ...) }
catchError(error) == toolReturn(errorResponse(error))

\* no request is made or settled
noRequest == UNCHANGED apiLog

\* await bento.V1...: the request is made and the handler waits
await(call) ==
    /\ toolPc' = "awaiting"
    /\ apiLog' = Append(apiLog, call)
    /\ UNCHANGED <<env, toolCall, response>>

\* try { const bento = getBentoClient(); ... await bento.V1... }
tryClient(call) ==
    IF getBentoClient(env)
    THEN await(call)
    ELSE catchError(MissingEnvError) /\ noRequest

\* the handler of the tool is called
called(tool) ==
    /\ toolPc = "called"
    /\ toolCall.tool = tool
    /\ UNCHANGED outsideTools

\* a tool that asks for the client and makes one request
simpleTool(tool, op) ==
    /\ called(tool)
    /\ tryClient(ApiCall(op, 0, JsUndefined))

get_subscriber ==
    /\ called("get_subscriber")
    /\ IF ~truthy(toolCall.email) /\ ~truthy(toolCall.uuid)
       THEN toolReturn(validationError("Either email or uuid is required")) /\ noRequest
       ELSE tryClient(ApiCall("Subscribers.getSubscribers", 0, JsUndefined))

\* a mutant of tooMany: a batch of MAX_BATCH is refused
tooManyInclusive(length) == length >= MAX_BATCH

\* subscribers.length > 1000
tooMany(length) == length > MAX_BATCH

batch_import_subscribers ==
    /\ called("batch_import_subscribers")
    /\ IF toolCall.count = 0
       THEN toolReturn(validationError("At least one subscriber is required")) /\ noRequest
       ELSE IF tooMany(toolCall.count)
       THEN toolReturn(validationError("Maximum 1000 subscribers per batch")) /\ noRequest
       ELSE tryClient(ApiCall("Batch.importSubscribers", toolCall.count,
                              JsUndefined))

list_tags == simpleTool("list_tags", "Tags.getTags")

create_tag == simpleTool("create_tag", "Tags.createTag")

list_fields == simpleTool("list_fields", "Fields.getFields")

create_field == simpleTool("create_field", "Fields.createField")

track_event ==
    /\ called("track_event")
    /\ \E generatedKey \in GeneratedKeys :
          LET validation == validatePurchaseDetails(toolCall.details,
                                                    generatedKey)
              finalDetails == IF isPurchaseEvent(toolCall.type)
                              THEN validation.details
                              ELSE toolCall.details
          IN  IF ~getBentoClient(env) THEN catchError(MissingEnvError) /\ noRequest
              ELSE IF isPurchaseEvent(toolCall.type) /\ ~validation.valid
              THEN toolReturn(validationError(validation.error)) /\ noRequest
              ELSE await(ApiCall("track", 0, finalDetails))

get_site_stats == simpleTool("get_site_stats", "Stats.getSiteStats")

list_broadcasts == simpleTool("list_broadcasts", "Broadcasts.getBroadcasts")

create_broadcast == simpleTool("create_broadcast", "Broadcasts.createBroadcast")

\* the requests list_automations makes, in order
automationOps(filter) ==
    (IF filter \in {"sequences", "all"}
     THEN <<"Sequences.getSequences">> ELSE <<>>)
        \o (IF filter \in {"workflows", "all"}
            THEN <<"Workflows.getWorkflows">> ELSE <<>>)

list_automations ==
    /\ called("list_automations")
    /\ tryClient(ApiCall(automationOps(toolCall.filter)[1], 0, JsUndefined))

get_email_template ==
    simpleTool("get_email_template", "EmailTemplates.getEmailTemplate")

update_email_template ==
    /\ called("update_email_template")
    /\ IF ~truthy(toolCall.subject) /\ ~truthy(toolCall.html)
       THEN /\ toolReturn(validationError(
                   "At least one of subject or html must be provided"))
            /\ noRequest
       ELSE tryClient(ApiCall("EmailTemplates.updateEmailTemplate", 0,
                              JsUndefined))

\* the request the handler waits for settles
settle(outcome) ==
    [apiLog EXCEPT ![Len(apiLog)].outcome = outcome]

\* the request resolves: list_automations goes on to its second request,
\* every other handler returns successResponse
apiResolves(data) ==
    /\ toolPc = "awaiting"
    /\ IF /\ toolCall.tool = "list_automations"
          /\ Len(apiLog) < Len(automationOps(toolCall.filter))
       THEN /\ apiLog' =
                  Append(settle("resolved"),
                         ApiCall(automationOps(toolCall.filter)[Len(apiLog) + 1],
                                 0, JsUndefined))
            /\ UNCHANGED <<env, toolCall, toolPc, response>>
       ELSE /\ apiLog' = settle("resolved")
            /\ toolReturn(successResponse(data))
    /\ UNCHANGED outsideTools

\* the request rejects: the catch block of the handler runs
apiRejects(error) ==
    /\ toolPc = "awaiting"
    /\ apiLog' = settle("rejected")
    /\ catchError(error)
    /\ UNCHANGED outsideTools

ToolNext ==
    \/ get_subscriber
    \/ batch_import_subscribers
    \/ list_tags
    \/ create_tag
    \/ list_fields
    \/ create_field
    \/ track_event
    \/ get_site_stats
    \/ list_broadcasts
    \/ create_broadcast
    \/ list_automations
    \/ get_email_template
    \/ update_email_template
    \/ \E data \in ApiData : apiResolves(data)
    \/ \E error \in ApiErrors : apiRejects(error)

ToolSpec == ToolInit /\ [][ToolNext]_vars

----------------------------------------------------------------------------
(* The setup command (src/setup): runSetup, the credentials file and the   *)
(* configure functions of the clients.  A step runs to the next awaited     *)
(* operation of the file system or the next spawned command.                *)

\* credentials, or null
Credentials(publishableKey, secretKey, siteUuid) ==
    [null |-> FALSE, publishableKey |-> publishableKey,
     secretKey |-> secretKey, siteUuid |-> siteUuid]

NullCredentials ==
    [null |-> TRUE, publishableKey |-> Undefined, secretKey |-> Undefined,
     siteUuid |-> Undefined]

\* a || b
or(a, b) == IF truthy(a) THEN a ELSE b

\* process.env of the setup command: a variable is unset or set
SetupEnvs ==
    [BENTO_PUBLISHABLE_KEY : { Undefined, <<"e">> },
     BENTO_SECRET_KEY : { Undefined, <<"e">> },
     BENTO_SITE_UUID : { Undefined, <<"e">> }]

\* the bento entry of a client configuration: none, the entry of an earlier
\* run, or the entry getBentoConfig builds
Bento(mode, c) == [mode |-> mode, creds |-> c]

NoBento == Bento("none", NullCredentials)

OldBento == Bento("old", NullCredentials)

getBentoConfig(c, writeSecrets) ==
    IF writeSecrets THEN Bento("secrets", c)
    ELSE Bento("references", NullCredentials)

\* what is at a path: nothing, a directory, the credentials file, a file that
\* is not JSON, a file holding the JSON value null, or a configuration with
\* its top-level keys, its other server entries and its bento entry
File(kind, c, keys, servers, bento) ==
    [kind |-> kind, creds |-> c, keys |-> keys, servers |-> servers,
     bento |-> bento]

Absent == File("absent", NullCredentials, {}, {}, NoBento)

Directory == File("dir", NullCredentials, {}, {}, NoBento)

CredentialsFile(c) == File("creds", c, {}, {}, NoBento)

InvalidJson == File("invalid", NullCredentials, {}, {}, NoBento)

JsonNull == File("null", NullCredentials, {}, {}, NoBento)

ConfigFile(keys, servers, bento) ==
    File("config", NullCredentials, keys, servers, bento)

Clients == { "claude-code", "claude-desktop", "cursor", "opencode", "manual" }

AllClients == <<"claude-code", "claude-desktop", "cursor", "opencode">>

\* the paths of the model
EnvDir == "~/.bento/mcp"

EnvFilePath == "~/.bento/mcp/env"

ConfigDir(client) ==
    IF client = "opencode" THEN "opencode" ELSE "Claude"

ConfigPath(client) ==
    IF client = "opencode" THEN "opencode/config.json"
    ELSE "Claude/claude_desktop_config.json"

BackupPath(client) ==
    IF client = "opencode" THEN "opencode/config.backup.json"
    ELSE "Claude/claude_desktop_config.backup.json"

FileClients == { "claude-desktop", "opencode" }

Paths ==
    { EnvDir, EnvFilePath }
        \cup { ConfigDir(c) : c \in FileClients }
        \cup { ConfigPath(c) : c \in FileClients }
        \cup { BackupPath(c) : c \in FileClients }

\* the key the servers of a client configuration are under
serverKey(client) == IF client = "opencode" THEN "mcp" ELSE "mcpServers"

\* the file systems the setup command starts on
StoredCredentials ==
    { <<Absent, Absent>>,
      <<Directory, Absent>>,
      <<Directory, CredentialsFile(Credentials(<<"s">>, <<"s">>, <<"s">>))>>,
      <<Directory, CredentialsFile(Credentials(<<"s">>, <<>>, <<"s">>))>> }

ExistingConfigs(client) ==
    { <<Absent, Absent>>,
      <<Directory, Absent>>,
      <<Directory, InvalidJson>>,
      <<Directory, JsonNull>>,
      <<Directory, ConfigFile({"theme"}, {}, NoBento)>>,
      <<Directory, ConfigFile({"theme", serverKey(client)}, {"other"},
                              OldBento)>> }

FileSystems ==
    { [path \in Paths |->
          CASE path = EnvDir -> stored[1]
            [] path = EnvFilePath -> stored[2]
            [] path = ConfigDir("claude-desktop") -> desktop[1]
            [] path = ConfigPath("claude-desktop") -> desktop[2]
            [] path = ConfigDir("opencode") -> open[1]
            [] path = ConfigPath("opencode") -> open[2]
            [] OTHER -> Absent] :
        stored \in StoredCredentials,
        desktop \in ExistingConfigs("claude-desktop"),
        open \in ExistingConfigs("opencode") }

\* SetupOptions; print is looked at first and makes runSetup return early
SetupOption(client, yes, dryRun, print, writeSecrets) ==
    [client |-> client, yes |-> yes, dryRun |-> dryRun, print |-> print,
     writeSecrets |-> writeSecrets]

SetupOptions ==
    { SetupOption(client, yes, dryRun, FALSE, TRUE) :
        client \in { "none", "claude-code", "claude-desktop", "cursor",
                     "opencode", "all" },
        yes \in BOOLEAN, dryRun \in BOOLEAN }
        \cup { SetupOption("opencode", TRUE, dryRun, FALSE, FALSE) :
                 dryRun \in BOOLEAN }
        \cup { SetupOption("none", FALSE, dryRun, TRUE, TRUE) :
                 dryRun \in BOOLEAN }

\* what the user types at the three prompts for a credential
Answers ==
    { Credentials(<<>>, <<>>, <<>>), Credentials(<<"p">>, <<>>, <<"p">>),
      Credentials(<<"p">>, <<"p">>, <<"p">>) }

\* what promptClients can return
PromptedClients ==
    { <<"manual">>, <<"claude-code", "opencode">>, <<"claude-desktop">>,
      AllClients }

\* loadCredentials: the three values of the file, or null when the file is
\* absent or one of them is empty
loadCredentials(file) ==
    IF /\ file.kind = "creds"
       /\ truthy(file.creds.publishableKey)
       /\ truthy(file.creds.secretKey)
       /\ truthy(file.creds.siteUuid)
    THEN file.creds
    ELSE NullCredentials

getCredentialsFromEnv(e) ==
    IF \/ truthy(e.BENTO_PUBLISHABLE_KEY)
       \/ truthy(e.BENTO_SECRET_KEY)
       \/ truthy(e.BENTO_SITE_UUID)
    THEN Credentials(or(e.BENTO_PUBLISHABLE_KEY, <<>>),
                     or(e.BENTO_SECRET_KEY, <<>>),
                     or(e.BENTO_SITE_UUID, <<>>))
    ELSE NullCredentials

\* a mutant of mergeCredentials: the stored value takes precedence
mergeCredentialsStoredFirst(stored, envCreds) ==
    IF envCreds.null THEN stored
    ELSE Credentials(
             or(stored.publishableKey, or(envCreds.publishableKey, <<>>)),
             or(stored.secretKey, or(envCreds.secretKey, <<>>)),
             or(stored.siteUuid, or(envCreds.siteUuid, <<>>)))

\* the merge of runSetup: the environment takes precedence
mergeCredentials(stored, envCreds) ==
    IF envCreds.null THEN stored
    ELSE Credentials(
             or(envCreds.publishableKey, or(stored.publishableKey, <<>>)),
             or(envCreds.secretKey, or(stored.secretKey, <<>>)),
             or(envCreds.siteUuid, or(stored.siteUuid, <<>>)))

\* !creds || !creds.publishableKey || !creds.secretKey || !creds.siteUuid
incomplete(c) ==
    \/ c.null
    \/ ~truthy(c.publishableKey)
    \/ ~truthy(c.secretKey)
    \/ ~truthy(c.siteUuid)

\* promptCredential: Enter keeps an existing value; without one the prompt
\* is repeated until something is typed
promptCredential(existing, answer, typed) ==
    IF truthy(existing) THEN or(answer, existing) ELSE or(answer, typed)

promptCredentials(c, answers) ==
    Credentials(
        promptCredential(c.publishableKey, answers.publishableKey, <<"p">>),
        promptCredential(c.secretKey, answers.secretKey, <<"p">>),
        promptCredential(c.siteUuid, answers.siteUuid, <<"p">>))

\* the clients of --client and --all, and of --yes without either
clientsOf(client) ==
    IF client \in { "all", "none" } THEN AllClients ELSE <<client>>

\* a mutant of savesCredentials: the credentials are saved in a dry run too
savesCredentialsAlways(o) == TRUE

\* if (!dryRun) { await saveCredentials(creds) }
savesCredentials(o) == ~o.dryRun

SetupTypeOK ==
    /\ setupPc \in { "idle", "start", "saving", "configuring", "fs",
                     "spawning", "done", "exited", "rejected" }
    /\ setupPc # "idle" =>
          /\ setupEnv \in SetupEnvs
          /\ options \in SetupOptions
          /\ step \in { "none", "read", "backup", "mkdir", "write", "reread",
                        "version", "remove", "add" }
          /\ DOMAIN fs = Paths
          /\ DOMAIN configured = Clients
          /\ \A i \in DOMAIN queue : queue[i] \in Clients
          /\ Len(spawned) <= 3

SetupInit ==
    /\ setupEnv \in SetupEnvs
    /\ options \in SetupOptions
    /\ setupPc = "start"
    /\ creds = NullCredentials
    /\ queue = <<>>
    /\ step = "none"
    /\ fs \in FileSystems
    /\ spawned = <<>>
    /\ configured = [c \in Clients |-> "none"]
    /\ CallIdle
    /\ ConcurrentIdle
    /\ ToolsIdle

\* runSetup, to its first awaited write or to the loop of configureClients
runSetup ==
    /\ setupPc = "start"
    /\ LET stored   == loadCredentials(fs[EnvFilePath])
           envCreds == getCredentialsFromEnv(setupEnv)
           merged   == mergeCredentials(stored, envCreds)
           goOn(c)  == /\ creds' = c
                       /\ setupPc' = IF savesCredentials(options)
                                     THEN "saving" ELSE "configuring"
       IN  IF options.print
           THEN /\ creds' = IF stored.null THEN envCreds ELSE stored
                /\ setupPc' = IF stored.null /\ envCreds.null
                              THEN "exited" ELSE "done"
                /\ UNCHANGED queue
           ELSE IF options.yes
           THEN IF incomplete(merged)
                THEN /\ creds' = merged
                     /\ setupPc' = "exited"
                     /\ UNCHANGED queue
                ELSE /\ goOn(merged)
                     /\ queue' = clientsOf(options.client)
           ELSE \E answers \in Answers, prompted \in PromptedClients :
                   /\ goOn(promptCredentials(merged, answers))
                   /\ queue' = IF options.client # "none"
                               THEN clientsOf(options.client)
                               ELSE prompted
    /\ UNCHANGED <<setupEnv, options, step, fs, spawned, configured>>
    /\ UNCHANGED outsideSetup

\* saveCredentials settles: mkdir when the directory is missing, writeFile,
\* chmod; the first that fails rejects runSetup
saveCredentialsSettles(outcome) ==
    /\ setupPc = "saving"
    /\ outcome = "mkdir fails" => fs[EnvDir].kind = "absent"
    /\ fs' = CASE outcome = "mkdir fails" -> fs
               [] outcome = "writeFile fails" ->
                     [fs EXCEPT ![EnvDir] = Directory]
               [] OTHER ->
                     [fs EXCEPT ![EnvDir] = Directory,
                                ![EnvFilePath] = CredentialsFile(creds)]
    /\ setupPc' = IF outcome = "saved" THEN "configuring" ELSE "rejected"
    /\ UNCHANGED <<setupEnv, options, creds, queue, step, spawned,
                   configured>>
    /\ UNCHANGED outsideSetup

\* the loop of configureClients is at a client
configuring(client) ==
    /\ setupPc = "configuring"
    /\ queue # <<>>
    /\ Head(queue) = client
    /\ UNCHANGED <<setupEnv, options, creds>>
    /\ UNCHANGED outsideSetup

\* configure returns and the loop goes on
configureReturns(client, value) ==
    /\ configured' = [configured EXCEPT ![client] = value]
    /\ queue' = Tail(queue)
    /\ setupPc' = "configuring"
    /\ step' = "none"

\* configure waits for an operation
configureAwaits(pcOf, stepOf) ==
    /\ setupPc' = pcOf
    /\ step' = stepOf
    /\ UNCHANGED <<queue, configured>>

\* spawn("claude", ...)
spawn(command) ==
    spawned' = Append(spawned, [command |-> command, outcome |-> "running"])

\* configure of claude-code.ts, to its return or its first spawn
claudeCodeConfigure ==
    /\ configuring("claude-code")
    /\ IF options.dryRun
       THEN configureReturns("claude-code", "true") /\ UNCHANGED spawned
       ELSE spawn("claude --version") /\ configureAwaits("spawning", "version")
    /\ UNCHANGED fs

\* a mutant of spawnSettles: configure gives up when the removal fails
spawnSettlesRemovalMustSucceed(outcome) ==
    /\ setupPc = "spawning"
    /\ LET closed == [spawned EXCEPT ![Len(spawned)].outcome = outcome]
       IN  CASE step = "version" ->
                  IF outcome = "0"
                  THEN /\ spawned' =
                             Append(closed,
                                    [command |-> "claude mcp remove bento",
                                     outcome |-> "running"])
                       /\ configureAwaits("spawning", "remove")
                  ELSE /\ spawned' = closed
                       /\ configureReturns("claude-code", "false")
             [] step = "remove" ->
                  IF outcome = "0"
                  THEN /\ spawned' =
                             Append(closed,
                                    [command |-> "claude mcp add bento",
                                     outcome |-> "running"])
                       /\ configureAwaits("spawning", "add")
                  ELSE /\ spawned' = closed
                       /\ configureReturns("claude-code", "false")
             [] OTHER ->
                  /\ spawned' = closed
                  /\ configureReturns("claude-code",
                                      IF outcome = "0" THEN "true" ELSE "false")
    /\ UNCHANGED <<setupEnv, options, creds, fs>>
    /\ UNCHANGED outsideSetup

\* the spawned command closes with a code, or cannot be started
spawnSettles(outcome) ==
    /\ setupPc = "spawning"
    /\ LET closed == [spawned EXCEPT ![Len(spawned)].outcome = outcome]
       IN  CASE step = "version" ->
                  IF outcome = "0"
                  THEN /\ spawned' =
                             Append(closed,
                                    [command |-> "claude mcp remove bento",
                                     outcome |-> "running"])
                       /\ configureAwaits("spawning", "remove")
                  ELSE /\ spawned' = closed
                       /\ configureReturns("claude-code", "false")
             [] step = "remove" ->
                  /\ spawned' =
                        Append(closed, [command |-> "claude mcp add bento",
                                        outcome |-> "running"])
                  /\ configureAwaits("spawning", "add")
             [] OTHER ->
                  /\ spawned' = closed
                  /\ configureReturns("claude-code",
                                      IF outcome = "0" THEN "true" ELSE "false")
    /\ UNCHANGED <<setupEnv, options, creds, fs>>
    /\ UNCHANGED outsideSetup

\* configure of claude-desktop.ts and of opencode.ts, to its return or its
\* first awaited operation
fileConfigure(client) ==
    /\ configuring(client)
    /\ IF options.dryRun
       THEN configureReturns(client, "true")
       ELSE IF fs[ConfigPath(client)].kind # "absent"
       THEN configureAwaits("fs", "read")
       ELSE IF fs[ConfigDir(client)].kind = "absent"
       THEN configureAwaits("fs", "mkdir")
       ELSE configureAwaits("fs", "write")
    /\ UNCHANGED <<fs, spawned>>

claudeDesktopConfigure == fileConfigure("claude-desktop")

opencodeConfigure == fileConfigure("opencode")

\* a mutant of merge: the servers of the configuration are replaced by bento
\* alone
mergeReplacesServers(config, client, bentoConfig) ==
    IF config.kind = "absent"
    THEN ConfigFile({serverKey(client)}, {}, bentoConfig)
    ELSE ConfigFile(config.keys \cup {serverKey(client)}, {}, bentoConfig)

\* the configuration with the bento entry merged in
merge(config, client, bentoConfig) ==
    IF config.kind = "absent"
    THEN ConfigFile({serverKey(client)}, {}, bentoConfig)
    ELSE ConfigFile(config.keys \cup {serverKey(client)}, config.servers,
                    bentoConfig)

\* a mutant of parses: a file that is not JSON is taken for an empty
\* configuration
parsesAnything(config) == TRUE

\* JSON.parse(content) returns: the content of the file is JSON
parses(config) == config.kind # "invalid"

\* the awaited operation of the file system resolves
fsResolves ==
    /\ setupPc = "fs"
    /\ LET client == Head(queue)
           config == fs[ConfigPath(client)]
       IN  CASE step = "read" ->
                  /\ IF ~parses(config)
                     THEN configureReturns(client, "false")
                     ELSE configureAwaits("fs", "backup")
                  /\ UNCHANGED fs
             [] step = "backup" ->
                  /\ fs' = [fs EXCEPT ![BackupPath(client)] = config]
                  /\ IF config.kind = "null"
                     THEN configureReturns(client, "false")
                     ELSE configureAwaits("fs", "write")
             [] step = "mkdir" ->
                  /\ fs' = [fs EXCEPT ![ConfigDir(client)] = Directory]
                  /\ configureAwaits("fs", "write")
             [] step = "write" ->
                  /\ fs' = [fs EXCEPT ![ConfigPath(client)] =
                               merge(config, client,
                                     getBentoConfig(creds,
                                                    options.writeSecrets))]
                  /\ configureAwaits("fs", "reread")
             [] OTHER ->
                  /\ configureReturns(client, "true")
                  /\ UNCHANGED fs
    /\ UNCHANGED <<setupEnv, options, creds, spawned>>
    /\ UNCHANGED outsideSetup

\* a mutant of fsRejects: a backup that fails is passed over and configure goes
\* on to write
fsRejectsBackupPassedOver ==
    /\ setupPc = "fs"
    /\ LET client == Head(queue)
       IN  IF step = "backup"
           THEN configureAwaits("fs", "write") /\ UNCHANGED fs
           ELSE /\ configureReturns(client, "false")
                /\ \/ UNCHANGED fs
                   \/ /\ step = "write"
                      /\ fs' = [fs EXCEPT ![ConfigPath(client)] = InvalidJson]
    /\ UNCHANGED <<setupEnv, options, creds, spawned>>
    /\ UNCHANGED outsideSetup

\* the awaited operation of the file system rejects: the catch block returns
\* false; a writeFile that fails leaves the file as it was or cut short
fsRejects ==
    /\ setupPc = "fs"
    /\ LET client == Head(queue)
       IN  /\ configureReturns(client, "false")
           /\ \/ UNCHANGED fs
              \/ /\ step = "write"
                 /\ fs' = [fs EXCEPT ![ConfigPath(client)] = InvalidJson]
    /\ UNCHANGED <<setupEnv, options, creds, spawned>>
    /\ UNCHANGED outsideSetup

\* configure of cursor.ts; it works on the configuration of Cursor only
cursorConfigure ==
    /\ configuring("cursor")
    /\ configureReturns("cursor", "unknown")
    /\ UNCHANGED <<fs, spawned>>

\* printManualConfig prints
printManualConfig ==
    /\ configuring("manual")
    /\ configureReturns("manual", "printed")
    /\ UNCHANGED <<fs, spawned>>

\* the loop of configureClients ends and runSetup prints the summary
runSetupReturns ==
    /\ setupPc = "configuring"
    /\ queue = <<>>
    /\ setupPc' = "done"
    /\ UNCHANGED <<setupEnv, options, creds, queue, step, fs, spawned,
                   configured>>
    /\ UNCHANGED outsideSetup

SetupNext ==
    \/ runSetup
    \/ \E outcome \in { "mkdir fails", "writeFile fails", "chmod fails",
                        "saved" } : saveCredentialsSettles(outcome)
    \/ claudeCodeConfigure
    \/ \E outcome \in { "0", "1", "error" } : spawnSettles(outcome)
    \/ claudeDesktopConfigure
    \/ opencodeConfigure
    \/ fsResolves
    \/ fsRejects
    \/ cursorConfigure
    \/ printManualConfig
    \/ runSetupReturns

SetupSpec == SetupInit /\ [][SetupNext]_vars

----------------------------------------------------------------------------
(* Properties *)

\* the page numbers 1, 2, ..., n
UpTo(n) == [i \in 1..n |-> i]

\* the position of the first match of a page
FirstMatching(seqs, name) ==
    CHOOSE i \in Matching(seqs, name) : \A j \in Matching(seqs, name) : i <= j

\* C1: a call whose sequenceId is non-empty after trimming returns exactly the
\* trimmed sequenceId and calls getSequences zero times, whatever sequenceName is.
C1_FastPath ==
    (~Blank(sequenceId) /\ pc # "start")
        => /\ pc = "done"
           /\ result = Core(sequenceId)
           /\ requestedPages = <<>>
           /\ inFlight = 0

C1_Witness ==
    /\ pc = "done"
    /\ sequenceId = <<" ","x","\t">>
    /\ ~Blank(sequenceName)
    /\ result = <<"x">>
    /\ requestedPages = <<>>

\* C2: a call whose sequenceId and sequenceName are both absent, empty or
\* white space only returns null and calls getSequences zero times.
C2_EmptyInput ==
    (Blank(sequenceId) /\ Blank(sequenceName) /\ pc # "start")
        => /\ pc = "done"
           /\ result = Null
           /\ requestedPages = <<>>
           /\ inFlight = 0

C2_Witness ==
    /\ pc = "done"
    /\ sequenceId = <<" ">>
    /\ sequenceName = <<" ","\t">>
    /\ result = Null

\* C3: on the page a name search returns on, an id is returned exactly when
\* some entry's name equals the target once both are trimmed and case-folded,
\* and it is the id of such an entry; every page the search went past held no
\* such entry.  A name that merely contains the target is no match.
C3_ExactMatchOnly ==
    /\ earlierPagesClean
    /\ (pc = "done" /\ sequences.kind = "array" /\ Len(sequences.items) > 0)
          => /\ (result # Null) <=> (Matching(sequences, sequenceName) # {})
             /\ result # Null =>
                   \E i \in Matching(sequences, sequenceName) :
                       result = sequences.items[i].id

C3_Witness ==
    /\ pc = "done"
    /\ sequenceName = <<"a","b">>
    /\ sequences.items =
          << Sequence(<<"s","3">>, TRUE, <<"a","b","c">>),
             Sequence(<<"s","2">>, TRUE, <<"\t","A","b"," ">>) >>
    /\ result = <<"s","2">>

\* C4: when the pages before page k were non-empty arrays without a match and
\* page k holds a match, the call has requested exactly pages 1..k in order,
\* returns the id of the match and requests nothing more.
C4_DeepPagination ==
    (pc = "done" /\ earlierPagesClean
        /\ Matching(sequences, sequenceName) # {})
        => /\ page \in 1..MAX_SEQUENCE_PAGES
           /\ requestedPages = UpTo(page)
           /\ result =
                 sequences.items[FirstMatching(sequences, sequenceName)].id
           /\ inFlight = 0
           /\ ~ENABLED Next

C4_Witness ==
    /\ pc = "done"
    /\ page = 11
    /\ requestedPages = UpTo(11)
    /\ sequenceName = <<" ","A","B"," ">>
    /\ sequences.items =
          << Sequence(<<"s","4">>, TRUE, <<"a">>),
             Sequence(<<"s","1">>, TRUE, <<"a","b">>) >>
    /\ result = <<"s","1">>

\* C5: when the pages before page k were non-empty arrays without a match and
\* page k is an empty array, the call returns null having requested exactly
\* pages 1..k, page k once, and requests nothing more.
C5_Exhaustion ==
    (pc = "done" /\ earlierPagesClean /\ sequences = Array(<<>>))
        => /\ result = Null
           /\ page \in 1..MAX_SEQUENCE_PAGES
           /\ requestedPages = UpTo(page)
           /\ inFlight = 0
           /\ ~ENABLED Next

C5_Witness ==
    /\ pc = "done"
    /\ page = 4
    /\ requestedPages = <<1, 2, 3, 4>>
    /\ sequences = Array(<<>>)
    /\ result = Null

\* C6: when every page the fetcher returned was a non-empty array without a
\* match, the call ends with null after requesting exactly pages 1..100 in
\* order; page 101 is never requested.
C6_CeilingBound ==
    /\ \A i \in 1..Len(requestedPages) :
          requestedPages[i] # MAX_SEQUENCE_PAGES + 1
    /\ (pc = "done" /\ earlierPagesClean
          /\ CleanPage(sequences, sequenceName))
          => /\ result = Null
             /\ requestedPages = UpTo(MAX_SEQUENCE_PAGES)
             /\ inFlight = 0
             /\ ~ENABLED Next

C6_Witness ==
    /\ pc = "done"
    /\ CleanPage(sequences, sequenceName)
    /\ Len(requestedPages) = MAX_SEQUENCE_PAGES
    /\ result = Null

\* C7: when the page the search returns on holds matching entries, the result
\* is the id of the one at the earliest position, no lower-numbered page held a
\* match, the call is fulfilled (no ambiguity failure) and no later page is
\* requested.
C7_FirstMatchWins ==
    (pc # "start" /\ Matching(sequences, sequenceName) # {})
        => /\ pc = "done"
           /\ earlierPagesClean
           /\ \A j \in Matching(sequences, sequenceName) :
                 \E i \in Matching(sequences, sequenceName) :
                     i <= j /\ result = sequences.items[i].id
           /\ ~ENABLED Next

C7_Witness ==
    /\ pc = "done"
    /\ page = 2
    /\ sequenceName = <<"a","b">>
    /\ sequences.items =
          << Sequence(<<"s","2">>, TRUE, <<"\t","A","b"," ">>),
             Sequence(<<"s","1">>, TRUE, <<"a","b">>) >>
    /\ result = <<"s","2">>

\* C8: when the fetch of page k rejects, the call fails: it yields neither an
\* id nor null, page k was requested once, and no further page is requested.
C8_FailurePropagates ==
    rejectedPage # 0
        => /\ pc = "failed"
           /\ result = Pending
           /\ rejectedPage = page
           /\ requestedPages = UpTo(page)
           /\ inFlight = 0
           /\ ~ENABLED Next

C8_Witness ==
    /\ pc = "failed"
    /\ rejectedPage = 3
    /\ requestedPages = <<1, 2, 3>>
    /\ result = Pending

\* C9: the page numbers one call requests are exactly 1, 2, ..., n for some
\* n <= 100: the first is 1, each later one is its predecessor plus 1, none is
\* repeated and none exceeds 100.
C9_PageNumbers ==
    /\ Len(requestedPages) <= MAX_SEQUENCE_PAGES
    /\ \A i \in 1..Len(requestedPages) : requestedPages[i] = i

C9_Witness ==
    /\ Len(requestedPages) = MAX_SEQUENCE_PAGES
    /\ requestedPages[MAX_SEQUENCE_PAGES] = MAX_SEQUENCE_PAGES
    /\ pc = "awaiting"

\* C10: at most one page fetch is in flight: while page p is awaited it is the
\* only request outstanding, pages 1..p-1 have all completed as non-empty
\* arrays without a match, and once the call has settled none is outstanding.
C10_OneInFlight ==
    /\ inFlight <= 1
    /\ pc = "awaiting"
          => /\ inFlight = 1
             /\ Len(requestedPages) = page
             /\ earlierPagesClean
    /\ pc # "awaiting" => inFlight = 0

C10_Witness ==
    /\ pc = "awaiting"
    /\ page = 2
    /\ requestedPages = <<1, 2>>
    /\ inFlight = 1

\* the promise of resolveSequenceId has settled
Settled == pc \in {"done", "failed"}

\* the number of steps the call can still take, at most
Rank ==
    IF pc = "start" THEN MAX_SEQUENCE_PAGES + 1
    ELSE IF pc = "awaiting" THEN MAX_SEQUENCE_PAGES + 1 - page
    ELSE 0

\* C11: when every page fetch completes or fails, every call eventually
\* settles, with an id or null (fulfilled) or with the fetch failure (rejected)
\* and never both; each step brings the 100-page ceiling nearer, so a fetcher
\* that never returns an empty page is stopped by it.
C11_Terminates ==
    /\ <>Settled
    /\ [](Settled =>
            \/ pc = "done" /\ result # Pending /\ rejectedPage = 0
            \/ pc = "failed" /\ result = Pending /\ rejectedPage # 0)
    /\ [][Rank' < Rank]_vars

C11_Witness ==
    /\ Settled
    /\ Rank = 0
    /\ page = MAX_SEQUENCE_PAGES + 1
    /\ Len(requestedPages) = MAX_SEQUENCE_PAGES
    /\ earlierPagesClean

\* C12: a call that is fulfilled yields null or exactly one id, the trimmed
\* sequenceId or the id of an entry of the page it returned on; no value is
\* produced before the call settles, and once it has settled no page fetch is
\* outstanding and none is requested.
C12_SingleOutcome ==
    /\ ~Settled => result = Pending
    /\ pc = "done" =>
          /\ result # Pending
          /\ \/ result = Null
             \/ result = Core(sequenceId) /\ ~Blank(sequenceId)
             \/ \E i \in 1..Len(sequences.items) :
                    result = sequences.items[i].id
          /\ inFlight = 0
          /\ ~ENABLED Next

C12_Witness ==
    /\ pc = "done"
    /\ sequenceName = <<"a">>
    /\ page = 5
    /\ result = <<"s","4">>
    /\ inFlight = 0

\* C20: a page that is null, undefined or an empty array ends the search the
\* same way: the call returns null on that page, having requested the pages up
\* to it, and requests no later page; the search never goes past such a page,
\* so an entry on a later page is never found.
C20_AbsentIsExhaustion ==
    /\ earlierPagesClean
    /\ (pc = "done" /\ sequences \in {NullPage, UndefinedPage, Array(<<>>)})
          => /\ result = Null
             /\ page \in 1..MAX_SEQUENCE_PAGES
             /\ requestedPages = UpTo(page)
             /\ inFlight = 0
             /\ ~ENABLED Next

C20_Witness ==
    /\ pc = "done"
    /\ sequences = NullPage
    /\ page = 2
    /\ requestedPages = <<1, 2>>
    /\ result = Null

\* the search of the specification over listing L: it ends on the first page
\* that is absent, empty or holds a match, at the ceiling at the latest
Scan(name, L) ==
    LET ends == { p \in 1..MAX_SEQUENCE_PAGES : ~CleanPage(PageOf(L, p), name) }
        k    == IF ends = {} THEN MAX_SEQUENCE_PAGES
                ELSE CHOOSE p \in ends : \A q \in ends : p <= q
        seqs == PageOf(L, k)
    IN  [result |->
            IF Matching(seqs, name) # {}
            THEN seqs.items[FirstMatching(seqs, name)].id
            ELSE Null,
         requestedPages |-> UpTo(k)]

\* what a call yields when it runs alone over listing L
Alone ==
    [id \in ConcurrentIds, name \in ConcurrentNames, L \in Listings |->
        IF ~Blank(id) THEN [result |-> Core(id), requestedPages |-> <<>>]
        ELSE IF Blank(name) THEN [result |-> Null, requestedPages |-> <<>>]
        ELSE Scan(name, L)]

IsPrefix(s, u) == Len(s) <= Len(u) /\ s = SubSeq(u, 1, Len(s))

\* C13: when calls run side by side with their page fetches interleaved in any
\* order, each call requests the pages it would request alone, in the same
\* order, and yields the result it would yield alone.
C13_CallsIndependent ==
    \A c \in CallIds :
        LET alone == Alone[calls[c].sequenceId, calls[c].sequenceName, listing]
        IN  /\ IsPrefix(calls[c].requestedPages, alone.requestedPages)
            /\ calls[c].pc = "done"
                  => /\ calls[c].result = alone.result
                     /\ calls[c].requestedPages = alone.requestedPages

C13_Witness ==
    /\ calls[1].pc = "done"
    /\ calls[1].sequenceName = <<"a","b">>
    /\ calls[1].requestedPages = <<1, 2, 3, 4, 5>>
    /\ calls[1].result = <<"s","1">>
    /\ calls[2].pc = "awaiting"
    /\ calls[2].sequenceName = <<"a">>
    /\ calls[2].requestedPages = <<1, 2>>

\* C14: two calls with the same sequenceId and sequenceName over the same
\* listing yield the same result and request the same pages in the same order,
\* whichever runs first; a name search always starts by requesting page 1, so
\* nothing is taken from an earlier call.
C14_Idempotent ==
    \A c, d \in CallIds :
        /\ (/\ calls[c].sequenceId = calls[d].sequenceId
            /\ calls[c].sequenceName = calls[d].sequenceName
            /\ calls[c].pc = "done"
            /\ calls[d].pc = "done")
              => /\ calls[c].result = calls[d].result
                 /\ calls[c].requestedPages = calls[d].requestedPages
        /\ (/\ calls[c].pc # "start"
            /\ Blank(calls[c].sequenceId)
            /\ ~Blank(calls[c].sequenceName))
              => /\ calls[c].requestedPages # <<>>
                 /\ calls[c].requestedPages[1] = 1

C14_Witness ==
    /\ \A c \in {1, 2} :
          /\ calls[c].pc = "done"
          /\ calls[c].sequenceId = Undefined
          /\ calls[c].sequenceName = <<"a","b">>
          /\ calls[c].requestedPages = <<1, 2>>
          /\ calls[c].result = <<"s","2">>


\* the three variables of the environment that the client needs
CredentialNames ==
    { "BENTO_PUBLISHABLE_KEY", "BENTO_SECRET_KEY", "BENTO_SITE_UUID" }

\* every one of them is set to a string that is not empty
CredentialsSet ==
    \A name \in CredentialNames : env[name] \notin { Undefined, <<>> }

\* the requests of an operation made so far
Requests(op) == { i \in DOMAIN apiLog : apiLog[i].op = op }

\* the call is a call of the tool
ToolCalled(tool) == toolPc # "idle" /\ toolCall.tool = tool

\* the handler has returned a validation error, isError set
ValidationErrorReturned ==
    /\ toolPc = "returned"
    /\ response.kind = "validation"
    /\ response.isError = "true"

\* the size of the batch is refused: a validation error and no request
BatchRefused ==
    /\ apiLog = <<>>
    /\ toolPc # "called" => ValidationErrorReturned

\* C15 as the claim states it: batch_import_subscribers refuses a batch of 0
\* and a batch of more than 1000 subscribers with a validation error and
\* without a request, and a batch of 1 to 1000 subscribers results in exactly
\* one import request.
C15_AsStated ==
    ToolCalled("batch_import_subscribers") =>
        IF toolCall.count = 0 \/ toolCall.count > 1000
        THEN BatchRefused
        ELSE toolPc # "called" =>
                /\ Len(apiLog) = 1
                /\ Requests("Batch.importSubscribers") = {1}

\* C15, amended: batch_import_subscribers refuses a batch of 0 and a batch of
\* more than 1000 subscribers with a validation error and without a request;
\* a batch of 1 to 1000 subscribers is never refused for its size, and it
\* results in exactly one import request, of the whole batch, when the three
\* credentials are set, and in no request and a configuration error when one
\* of them is not.
C15_BatchSize ==
    ToolCalled("batch_import_subscribers") =>
        IF toolCall.count = 0 \/ toolCall.count > 1000
        THEN BatchRefused
        ELSE toolPc # "called" =>
                /\ ~ValidationErrorReturned
                /\ IF CredentialsSet
                   THEN /\ Len(apiLog) = 1
                        /\ Requests("Batch.importSubscribers") = {1}
                        /\ apiLog[1].count = toolCall.count
                   ELSE /\ apiLog = <<>>
                        /\ toolPc = "returned"
                        /\ response.message = "Configuration error"
                        /\ response.isError = "true"

\* a batch of exactly 1000 subscribers was imported with one request
C15_Witness ==
    /\ ToolCalled("batch_import_subscribers")
    /\ toolCall.count = 1000
    /\ toolPc = "returned"
    /\ response.kind = "success"
    /\ Len(apiLog) = 1
    /\ apiLog[1].outcome = "resolved"


\* a string argument is left out or empty
Missing(s) == s \in { Undefined, <<>> }

\* the type names a purchase: one of the five names, whatever the letter case
NamesPurchase(type) ==
    \E name \in PURCHASE_EVENT_TYPES :
        /\ Len(type) = Len(name)
        /\ \A i \in 1..Len(name) : SameLetter(type[i], name[i])

\* the details of a purchase are complete: a value with a currency of three
\* characters and an amount that is a number and not negative
CompleteDetails(d) ==
    /\ d.t = "object"
    /\ d.o.value.t = "object"
    /\ d.o.value.o.currency.t = "string"
    /\ Len(d.o.value.o.currency.s) = 3
    /\ d.o.value.o.amount.t = "number"
    /\ d.o.value.o.amount.n >= 0

\* the arguments of the call fail the validation of its tool
InputInvalid ==
    \/ /\ toolCall.tool = "get_subscriber"
       /\ Missing(toolCall.email) /\ Missing(toolCall.uuid)
    \/ /\ toolCall.tool = "batch_import_subscribers"
       /\ toolCall.count \notin 1..1000
    \/ /\ toolCall.tool = "update_email_template"
       /\ Missing(toolCall.subject) /\ Missing(toolCall.html)
    \/ /\ toolCall.tool = "track_event"
       /\ NamesPurchase(toolCall.type)
       /\ ~CompleteDetails(toolCall.details)

\* a request of the call was rejected
RequestRejected == \E i \in DOMAIN apiLog : apiLog[i].outcome = "rejected"

\* C16: no handler lets an exception escape to the dispatcher; a handler whose
\* input validation fails, whose client cannot be built or whose request is
\* rejected returns a response with isError = true, and the response of any
\* other call is a success response without an isError flag.
C16_FailureIsAResponse ==
    toolPc # "idle" =>
        /\ toolPc # "threw"
        /\ toolPc = "returned" =>
              IF InputInvalid \/ ~CredentialsSet \/ RequestRejected
              THEN response.isError = "true"
              ELSE response.kind = "success" /\ response.isError = NoFlag

\* update_email_template returned an error response for a rejected request,
\* with valid input and the credentials set
C16_Witness ==
    /\ ToolCalled("update_email_template")
    /\ toolPc = "returned"
    /\ ~InputInvalid
    /\ CredentialsSet
    /\ RequestRejected
    /\ response.kind = "error"
    /\ response.isError = "true"


\* C17: when one of BENTO_PUBLISHABLE_KEY, BENTO_SECRET_KEY, BENTO_SITE_UUID
\* is unset or empty, a call of a tool makes no request to the Bento API, and
\* what it returns is an isError response: the configuration error, or the
\* validation error of the tool for arguments that fail its validation.
C17_NoClientNoRequest ==
    (toolPc # "idle" /\ ~CredentialsSet) =>
        /\ apiLog = <<>>
        /\ toolPc \in {"called", "returned"}
        /\ toolPc = "returned" =>
              /\ response.isError = "true"
              /\ \/ /\ response.kind = "error"
                    /\ response.message = "Configuration error"
                 \/ /\ response.kind = "validation"
                    /\ InputInvalid

\* a tool called with an empty BENTO_SECRET_KEY, the other two set, returned
\* the configuration error
C17_Witness ==
    /\ toolPc = "returned"
    /\ env.BENTO_SECRET_KEY = <<>>
    /\ env.BENTO_PUBLISHABLE_KEY = <<"k">>
    /\ env.BENTO_SITE_UUID = <<"k">>
    /\ apiLog = <<>>
    /\ response = Response("error", "Configuration error", "true")


\* the handler has returned the configuration error, isError set
ConfigurationErrorReturned ==
    /\ toolPc = "returned"
    /\ response = Response("error", "Configuration error", "true")

\* track was requested once, and nothing else
TrackRequested == Len(apiLog) = 1 /\ Requests("track") = {1}

\* C18 as the claim states it: for a type that names a purchase, track is
\* requested only if the details are complete, and otherwise a validation
\* error is returned and track is never requested; for any other type the
\* details are passed to track as they are, without this validation.
C18_AsStated ==
    ToolCalled("track_event") =>
        IF NamesPurchase(toolCall.type)
        THEN /\ apiLog # <<>> => CompleteDetails(toolCall.details)
             /\ ~CompleteDetails(toolCall.details) =>
                   /\ apiLog = <<>>
                   /\ toolPc # "called" => ValidationErrorReturned
        ELSE toolPc # "called" =>
                /\ TrackRequested
                /\ apiLog[1].details = toolCall.details

\* C18, amended: for a type that names a purchase, track is requested only
\* if the details are complete; with incomplete details track is never
\* requested and an isError response is returned, the validation error when
\* the three credentials are set and the configuration error when one of
\* them is not. For any other type the details are never validated, and with
\* the credentials set they are passed to track as they are.
C18_PurchaseValidation ==
    ToolCalled("track_event") =>
        IF NamesPurchase(toolCall.type)
        THEN /\ apiLog # <<>> =>
                   /\ CompleteDetails(toolCall.details)
                   /\ TrackRequested
             /\ ~CompleteDetails(toolCall.details) =>
                   /\ apiLog = <<>>
                   /\ toolPc # "called" =>
                         IF CredentialsSet
                         THEN ValidationErrorReturned
                         ELSE ConfigurationErrorReturned
        ELSE /\ ~ValidationErrorReturned
             /\ apiLog # <<>> =>
                   /\ TrackRequested
                   /\ apiLog[1].details = toolCall.details
             /\ (toolPc # "called" /\ CredentialsSet) => apiLog # <<>>

\* an event of type "Order" whose currency has two characters was refused
\* with a validation error, the credentials being set
C18_Witness ==
    /\ ToolCalled("track_event")
    /\ toolCall.type = <<"O","r","d","e","r">>
    /\ toolCall.details =
          DetailsObject(JsUndefined,
                        ValueObject(JsString(<<"U","S">>), JsNumber(4000)),
                        JsUndefined)
    /\ CredentialsSet
    /\ ValidationErrorReturned
    /\ apiLog = <<>>


\* the setup command runs with the dry-run option
DryRun == setupPc # "idle" /\ options.dryRun

\* the clients whose configure function C19 is about
DryRunClients == { "claude-code", "claude-desktop", "opencode" }

\* C19: with the dry-run option no step of the setup command changes the file
\* system (the credentials file, the configuration files of Claude Desktop
\* and OpenCode, their directories and their backups) or spawns a command;
\* runSetup never gets to saveCredentials, no configure function waits for the
\* file system or for a command, and the configure functions of Claude Code,
\* Claude Desktop and OpenCode return true.
C19_DryRunChangesNothing ==
    /\ [](DryRun =>
             /\ spawned = <<>>
             /\ setupPc \notin { "saving", "fs", "spawning", "rejected" }
             /\ \A c \in DryRunClients : configured[c] \in { "none", "true" })
    /\ [][DryRun =>
             /\ fs' = fs
             /\ spawned' = spawned
             /\ \A c \in DryRunClients :
                   (queue # <<>> /\ Head(queue) = c /\ queue' = Tail(queue))
                       => configured'[c] = "true"]_vars

\* a dry run of all clients has ended where there was no credentials file and
\* no configuration of Claude Desktop: the three configure functions returned
\* true and neither file exists
C19_Witness ==
    /\ DryRun
    /\ setupPc = "done"
    /\ options.client = "all"
    /\ \A c \in DryRunClients : configured[c] = "true"
    /\ fs[EnvDir].kind = "absent"
    /\ fs[EnvFilePath].kind = "absent"
    /\ fs[ConfigDir("claude-desktop")].kind = "absent"
    /\ fs[ConfigPath("opencode")].kind = "config"
    /\ fs[BackupPath("opencode")].kind = "absent"
    /\ spawned = <<>>


\* the call searches by name: no usable sequenceId, a usable sequenceName
NameSearch == Blank(sequenceId) /\ ~Blank(sequenceName)

\* the page is absent or an empty array
NoContent(seqs) == seqs.kind # "array" \/ seqs.items = <<>>

\* C21: a name search returns null only on a page that is absent or empty, or
\* after page 100, and then no page it fetched held an entry with the target
\* name; a page with a match never yields null, and a non-empty page without
\* a match ends the search only when it is page 100.
C21_NotFoundOnlyWhenExhausted ==
    (NameSearch /\ pc = "done") =>
        /\ result = Null =>
              /\ \/ NoContent(sequences) /\ page \in 1..MAX_SEQUENCE_PAGES
                 \/ /\ page = MAX_SEQUENCE_PAGES + 1
                    /\ Len(requestedPages) = MAX_SEQUENCE_PAGES
              /\ earlierPagesClean
              /\ Matching(sequences, sequenceName) = {}
        /\ Matching(sequences, sequenceName) # {} => result # Null
        /\ CleanPage(sequences, sequenceName) =>
              /\ page = MAX_SEQUENCE_PAGES + 1
              /\ requestedPages = UpTo(MAX_SEQUENCE_PAGES)

\* a name search returned null on an absent third page, after two non-empty
\* pages without a match
C21_Witness ==
    /\ NameSearch
    /\ pc = "done"
    /\ result = Null
    /\ sequences = UndefinedPage
    /\ page = 3
    /\ requestedPages = <<1, 2, 3>>
    /\ earlierPagesClean


\* where the first match of a listing is, for the listings whose pages before
\* it are all non-empty: on page 100, on page 101, or elsewhere
AtCeiling ==
    [L \in Listings, name \in ConcurrentNames |->
        LET clean(n) == \A p \in 1..n : CleanPage(PageOf(L, p), name)
        IN  IF clean(99) /\ Matching(PageOf(L, 100), name) # {}
            THEN "page 100"
            ELSE IF clean(100) /\ Matching(PageOf(L, 101), name) # {}
            THEN "page 101"
            ELSE "elsewhere"]

\* call c searches by name
NameSearchOf(c) ==
    Blank(calls[c].sequenceId) /\ ~Blank(calls[c].sequenceName)

\* C22: the ceiling of 100 pages is inclusive. Over a listing whose pages
\* 1..99 are non-empty without a match and whose page 100 holds one, a name
\* search fetches page 100 and returns the id of that entry; over a listing
\* whose pages 1..100 are non-empty without a match and whose first match is
\* on page 101, it returns null and never requests page 101.
C22_CeilingInclusive ==
    listing # <<>> =>
        \A c \in CallIds :
            LET name  == calls[c].sequenceName
                last  == PageOf(listing, 100)
                where == AtCeiling[listing, name]
            IN  NameSearchOf(c) =>
                    /\ (where = "page 100" /\ calls[c].pc = "done")
                          => /\ calls[c].requestedPages = UpTo(100)
                             /\ calls[c].result =
                                   last.items[FirstMatching(last, name)].id
                    /\ where = "page 101"
                          => /\ Len(calls[c].requestedPages) <= 100
                             /\ calls[c].pc = "done" =>
                                   /\ calls[c].result = Null
                                   /\ calls[c].requestedPages = UpTo(100)

\* a call has returned null after page 100 over the listing whose only match
\* is on page 101
C22_Witness ==
    /\ listing # <<>>
    /\ \E c \in CallIds :
          /\ NameSearchOf(c)
          /\ AtCeiling[listing, calls[c].sequenceName] = "page 101"
          /\ calls[c].pc = "done"
          /\ calls[c].requestedPages = UpTo(100)
          /\ calls[c].result = Null


\* the entry has no name: no attributes, or a name that is absent, empty or
\* white space only
Nameless(sequence) == ~sequence.hasAttributes \/ Blank(sequence.name)

\* the page is an array with at least one entry, all of them nameless
NamelessPage(seqs) ==
    /\ seqs.kind = "array"
    /\ seqs.items # <<>>
    /\ \A i \in 1..Len(seqs.items) : Nameless(seqs.items[i])

\* C23: a name search never returns the id of an entry without a name,
\* whatever the target is; a page that holds only such entries is not taken
\* for the end of the listing: the search ends on it only when it is page 100.
C23_NamelessNeverMatches ==
    (NameSearch /\ pc = "done") =>
        /\ \A i \in 1..Len(sequences.items) :
              Nameless(sequences.items[i]) => result # sequences.items[i].id
        /\ NamelessPage(sequences) =>
              /\ result = Null
              /\ page = MAX_SEQUENCE_PAGES + 1
              /\ requestedPages = UpTo(MAX_SEQUENCE_PAGES)

\* a search went past a first page of two nameless entries and returned the
\* named entry that follows a nameless one on the second page
C23_Witness ==
    /\ NameSearch
    /\ pc = "done"
    /\ page = 2
    /\ requestedPages = <<1, 2>>
    /\ sequences.items =
          << Sequence(<<"s","7">>, TRUE, Undefined),
             Sequence(<<"s","1">>, TRUE, <<"a","b">>) >>
    /\ result = <<"s","1">>


\* C24: a call whose sequenceId is absent, empty or white space only and whose
\* sequenceName is usable searches by name exactly as a call without a
\* sequenceId does: the same pages in the same order, the same result. The id
\* wins over the name only when something is left of it after trimming: then
\* it is returned, trimmed, without a request.
C24_BlankIdIsNoId ==
    listing # <<>> =>
        \A c \in CallIds :
            LET call   == calls[c]
                noId   == Alone[Undefined, call.sequenceName, listing]
            IN  /\ (Blank(call.sequenceId) /\ ~Blank(call.sequenceName)) =>
                      /\ call.pc # "start" => call.requestedPages # <<>>
                      /\ IsPrefix(call.requestedPages, noId.requestedPages)
                      /\ call.pc = "done" =>
                            /\ call.result = noId.result
                            /\ call.requestedPages = noId.requestedPages
                            /\ \A d \in CallIds :
                                  (/\ calls[d].sequenceId = Undefined
                                   /\ calls[d].sequenceName = call.sequenceName
                                   /\ calls[d].pc = "done")
                                     => /\ calls[d].result = call.result
                                        /\ calls[d].requestedPages
                                              = call.requestedPages
                /\ call.pc = "done" =>
                      (/\ call.result = Core(call.sequenceId)
                       /\ call.requestedPages = <<>>
                       /\ call.result # Null)
                          <=> ~Blank(call.sequenceId)

\* a call with a sequenceId of white space and a call without a sequenceId
\* searched the same name and ended alike
C24_Witness ==
    /\ listing # <<>>
    /\ calls[1].sequenceId = <<" ","\t">>
    /\ calls[2].sequenceId = Undefined
    /\ \A c \in {1, 2} :
          /\ calls[c].pc = "done"
          /\ calls[c].sequenceName = <<"a","b">>
          /\ calls[c].requestedPages = <<1, 2>>
          /\ calls[c].result = <<"s","2">>


\* details.unique.key of the details the caller gave
GivenKey == jsGet(jsGet(toolCall.details, "unique"), "key")

\* what unique can be replaced by: an object that holds a generated key only
GeneratedUniques == { UniqueObject(JsString(key)) : key \in GeneratedKeys }

\* C25: when track_event requests track for a type that names a purchase, the
\* details of the request are the caller's details as they are if
\* details.unique.key is there and is not empty; if unique or its key is
\* missing (or empty, or any other value that JavaScript takes for false), the
\* details of the request are the caller's with unique replaced by an object
\* that holds a generated key, every other field as the caller gave it.
C25_DetailsPassedOn ==
    (/\ ToolCalled("track_event")
     /\ NamesPurchase(toolCall.type)
     /\ apiLog # <<>>) =>
        LET given == toolCall.details
            sent  == apiLog[1].details
        IN  /\ TrackRequested
            /\ CompleteDetails(given)
            /\ IF jsTruthy(GivenKey)
               THEN sent = given
               ELSE /\ sent.t = "object"
                    /\ DOMAIN sent.o = DOMAIN given.o
                    /\ \A field \in DOMAIN given.o \ {"unique"} :
                          sent.o[field] = given.o[field]
                    /\ sent.o.unique \in GeneratedUniques

\* an order without a unique key and with a cart was tracked: the request
\* carries a generated key, the caller's value and the caller's cart
C25_Witness ==
    /\ ToolCalled("track_event")
    /\ toolCall.type = <<"$","P","u","r","c","h","a","s","e">>
    /\ toolCall.details =
          DetailsObject(UniqueObject(JsUndefined),
                        ValueObject(JsString(<<"U","S","D">>), JsNumber(4000)),
                        JsObject([items |-> JsNumber(2)]))
    /\ TrackRequested
    /\ apiLog[1].details =
          DetailsObject(UniqueObject(JsString(<<"m","c","p","_","2">>)),
                        ValueObject(JsString(<<"U","S","D">>), JsNumber(4000)),
                        JsObject([items |-> JsNumber(2)]))
    /\ toolPc = "returned"


\* configure of claude-desktop.ts or opencode.ts runs for the client, without
\* the dry-run option
Configures(client) ==
    /\ setupPc \in { "configuring", "fs" }
    /\ queue # <<>>
    /\ Head(queue) = client
    /\ ~options.dryRun

BentoEntry == getBentoConfig(creds, options.writeSecrets)

\* C27: when configure of Claude Desktop or OpenCode rewrites a configuration
\* file that held a valid configuration, the new content has every top-level
\* key and every server the old content had, the key of the servers (mcpServers,
\* mcp for OpenCode) added if it was not there, and the bento entry of this run;
\* no other path changes; and a configure that returned true left the file
\* with its bento entry.
C27_MergeKeepsTheRest ==
    /\ [][\A client \in FileClients :
             LET old == fs[ConfigPath(client)]
                 new == fs'[ConfigPath(client)]
             IN  (Configures(client) /\ old.kind = "config" /\ new # old
                     /\ new.kind = "config") =>
                    /\ step = "write"
                    /\ new.keys = old.keys \cup {serverKey(client)}
                    /\ new.servers = old.servers
                    /\ new.bento = BentoEntry
                    /\ \A path \in Paths \ {ConfigPath(client)} :
                          fs'[path] = fs[path]]_vars
    /\ [](\A client \in FileClients :
             (setupPc # "idle" /\ ~options.dryRun
                 /\ configured[client] = "true") =>
                /\ fs[ConfigPath(client)].kind = "config"
                /\ serverKey(client) \in fs[ConfigPath(client)].keys
                /\ fs[ConfigPath(client)].bento = BentoEntry)

\* configure of Claude Desktop returned true over a configuration with a theme,
\* another server and an older bento entry, all of which the backup shows
C27_Witness ==
    /\ setupPc = "done"
    /\ ~options.dryRun
    /\ configured["claude-desktop"] = "true"
    /\ fs[BackupPath("claude-desktop")] =
          ConfigFile({"theme", serverKey("claude-desktop")}, {"other"},
                     OldBento)
    /\ fs[ConfigPath("claude-desktop")] =
          ConfigFile({"theme", serverKey("claude-desktop")}, {"other"},
                     BentoEntry)


\* C28: whenever a step of configure of Claude Desktop or OpenCode changes a
\* configuration file that was there already, the backup of the client holds
\* the content the file had, and held it before the step; when the copy to the
\* backup fails, configure returns false and the file system stays as it is.
C28_BackupBeforeWrite ==
    [][\A client \in FileClients :
          LET old == fs[ConfigPath(client)]
          IN  Configures(client) =>
                 /\ (old.kind # "absent" /\ fs'[ConfigPath(client)] # old) =>
                       /\ step = "write"
                       /\ fs[BackupPath(client)] = old
                       /\ fs'[BackupPath(client)] = old
                 /\ (setupPc = "fs" /\ step = "backup"
                        /\ fs'[BackupPath(client)] # old) =>
                       /\ fs' = fs
                       /\ configured'[client] = "false"
                       /\ setupPc' = "configuring"]_vars

\* configure of OpenCode has written the configuration and is about to read
\* it again; the backup holds what the file held before
C28_Witness ==
    /\ Configures("opencode")
    /\ setupPc = "fs"
    /\ step = "reread"
    /\ fs[BackupPath("opencode")] = ConfigFile({"theme"}, {}, NoBento)
    /\ fs[ConfigPath("opencode")] =
          ConfigFile({"theme", serverKey("opencode")}, {}, BentoEntry)


\* the commands spawned so far, in the order of their spawning
Commands == [i \in 1..Len(spawned) |-> spawned[i].command]

\* the commands of a whole run of configure of claude-code.ts
ClaudeCodeCommands ==
    << "claude --version", "claude mcp remove bento", "claude mcp add bento" >>

\* the outcomes of a command that has ended
Ended == { "0", "1", "error" }

\* C29: in a run without the dry-run option the commands are spawned in the
\* order claude --version, claude mcp remove bento, claude mcp add bento, each
\* after the one before it has ended. If the check of the claude command fails,
\* nothing else is spawned and configure returns false; if it succeeds the
\* removal is spawned, and the addition is spawned once the removal has ended,
\* whatever its outcome; configure returns true if the addition exits with
\* code 0 and false if it does not.
C29_ClaudeCodeCommands ==
    (setupPc # "idle" /\ ~options.dryRun) =>
        LET returned == configured["claude-code"]
            count  == Len(spawned)
        IN  /\ IsPrefix(Commands, ClaudeCodeCommands)
            /\ \A i \in 1..(count - 1) : spawned[i].outcome \in Ended
            /\ count >= 2 => spawned[1].outcome = "0"
            /\ (count >= 1 /\ spawned[1].outcome \in {"1", "error"}) =>
                  /\ count = 1
                  /\ returned = "false"
            /\ count = 2 => spawned[2].outcome = "running"
            /\ returned = "true" <=> (count = 3 /\ spawned[3].outcome = "0")
            /\ returned = "false" <=>
                  \/ count = 1 /\ spawned[1].outcome \in {"1", "error"}
                  \/ count = 3 /\ spawned[3].outcome \in {"1", "error"}
            /\ returned = "none" <=>
                  (count = 0 \/ spawned[count].outcome = "running")

\* the claude command was there, the removal failed, the addition exited with
\* code 0 and configure returned true
C29_Witness ==
    /\ setupPc = "done"
    /\ ~options.dryRun
    /\ configured["claude-code"] = "true"
    /\ spawned =
          << [command |-> "claude --version", outcome |-> "0"],
             [command |-> "claude mcp remove bento", outcome |-> "1"],
             [command |-> "claude mcp add bento", outcome |-> "0"] >>


\* the fields of the credentials and the variable of the environment of each
CredentialFields == { "publishableKey", "secretKey", "siteUuid" }

VariableOf(field) ==
    CASE field = "publishableKey" -> "BENTO_PUBLISHABLE_KEY"
      [] field = "secretKey" -> "BENTO_SECRET_KEY"
      [] OTHER -> "BENTO_SITE_UUID"

\* the environment gives the field a value
FromEnv(field) == setupEnv[VariableOf(field)] \notin { Undefined, <<>> }

\* the stored credentials: those of the file when it holds a value for each
\* field, none otherwise
StoredValue(field) ==
    LET file == fs[EnvFilePath]
    IN  IF /\ file.kind = "creds"
           /\ \A f \in CredentialFields : file.creds[f] \notin { Undefined, <<>> }
        THEN file.creds[field]
        ELSE <<>>

\* the value of the field after the merge
MergedValue(field) ==
    IF FromEnv(field) THEN setupEnv[VariableOf(field)] ELSE StoredValue(field)

\* runSetup starts in non-interactive mode
YesMode(pcOf) == setupPc = pcOf /\ options.yes /\ ~options.print

\* C30: in non-interactive mode, when a field is empty after the merge of the
\* environment over the stored credentials, runSetup exits at once: nothing is
\* saved, no client is configured and no step follows; when no field is empty,
\* runSetup goes on with, for each field, the value of the environment if it
\* gives one and the stored value otherwise.
C30_YesNeedsCredentials ==
    /\ [][YesMode("start") =>
             IF \E field \in CredentialFields : MergedValue(field) = <<>>
             THEN /\ setupPc' = "exited"
                  /\ fs' = fs
                  /\ queue' = <<>>
             ELSE /\ setupPc' = IF options.dryRun THEN "configuring"
                                ELSE "saving"
                  /\ \A field \in CredentialFields :
                        creds'[field] = MergedValue(field)]_vars
    /\ [][~YesMode("exited")]_vars
    /\ [](YesMode("exited") =>
             /\ spawned = <<>>
             /\ step = "none"
             /\ \A client \in Clients : configured[client] = "none")

\* the environment gives the secret key alone and nothing is stored: runSetup
\* has exited without saving and without configuring
C30_Witness ==
    /\ YesMode("exited")
    /\ ~options.dryRun
    /\ setupEnv = [BENTO_PUBLISHABLE_KEY |-> Undefined,
                   BENTO_SECRET_KEY |-> <<"e">>,
                   BENTO_SITE_UUID |-> Undefined]
    /\ fs[EnvDir] = Absent
    /\ fs[EnvFilePath] = Absent
    /\ spawned = <<>>
    /\ \A client \in Clients : configured[client] = "none"

====
